---- MODULE Spec2Model ----
(***************************************************************************)
(* A model of pii-guard: the detection engine (pii_guard/detector.py), the *)
(* token vault and the data anonymizer (pii_guard/anonymizer.py), and the  *)
(* fake data generator (pii_guard/fake_data.py).                           *)
(*                                                                         *)
(* Ten specifications share the module:                                    *)
(*   SpecDetect  one detect() or redact() call, from the scans to the      *)
(*               returned list and string                                  *)
(*   SpecScan    one detect() call whose pattern scan runs the whole       *)
(*               registry                                                  *)
(*   SpecLuhn    one _luhn_check call                                      *)
(*   SpecVault   TokenVault objects and the data they export and import    *)
(*   SpecAnon    one DataAnonymizer given records by anonymize_record      *)
(*   SpecBatch   one DataAnonymizer given batches by anonymize_records     *)
(*   SpecField   one DataAnonymizer with one configured field, of any      *)
(*               field type and method                                     *)
(*   SpecTables  one DataAnonymizer with two tables                        *)
(*   SpecThreads two threads, each calling anonymize_record on its own     *)
(*               DataAnonymizer                                            *)
(*   SpecGenerators  two FakeDataGenerator objects of one seed and locale  *)
(* Each one moves its own variables and leaves the others at rest.         *)
(*                                                                         *)
(* Confidences are exact decimals, counted in units of 0.00001.            *)
(* Python strings are sequences of one-character strings; a literal the    *)
(* code emits as a whole (a placeholder) is kept as one element.           *)
(***************************************************************************)
EXTENDS Integers, Sequences, FiniteSets, TLC

VARIABLES
    \* ---- PIIDetector.detect and redact ----
    input,          \* what the argument `text` is: a str, or an object of another type
    stage,          \* the part of the call that runs: language, pattern, name, address,
                    \* then done (detect returned), redacted (redact returned) or raised
    curType,        \* index in the registry of the pattern type being scanned
    lastEnd,        \* end of the last match finditer gave for that type
    entities,       \* detect()'s local list `entities`
    detected,       \* the list detect() returned
    redacted,       \* the string redact() returned
    \* ---- TokenVault ----
    fwdHeap,        \* dict objects used as _vault:   id -> [field_type -> [digest -> token]]
    revHeap,        \* dict objects used as _reverse: id -> [field_type -> [token -> value]]
    vaults,         \* vault -> [vault |-> id, reverse |-> id]: the objects it refers to
    exported,       \* the dicts export_vault returned so far
    tracked,        \* one earlier tokenize call, any of them: its vault, field type,
                    \* value and token, whether the vault imported since, and whether
                    \* the call minted the token and no vault imported since
    imports,        \* number of import_vault calls
    nextTok,        \* number of tokens uuid4 has produced
    vaultOp,        \* the last vault operation and its result
    \* ---- DataAnonymizer ----
    config,         \* the AnonymizationConfig the instance was built from
    field_configs,  \* self.field_configs: table name -> field name -> FieldConfig
    consistency,    \* _consistency_map: key -> [str(value) -> anonymized value]
    anonVault,      \* self.vault: whether there is one, its two dicts, the uuids it drew
    returned,       \* what anonymize_record returned so far: [table, field, value, out]
    anonOp,         \* the last anonymizer call and its result
    \* ---- two threads, each with a DataAnonymizer of its own ----
    rng,            \* the generator of the module `random`, shared by the process
    threads,        \* thread -> where it is in its anonymize_record call, and its
                    \* instance's consistency map
    faked,          \* what the calls of the threads returned: [thread, value, out]
    \* ---- PIIDetector._luhn_check ----
    number,         \* the argument of the call
    luhn,           \* "pending" before the call returns, then what it returned
    \* ---- FakeDataGenerator ----
    generators      \* generator -> its seed, its locale, the number of values drawn
                    \* from its own stream, and the calls it answered

detVars   == <<input, stage, curType, lastEnd, entities, detected, redacted>>
vaultVars == <<fwdHeap, revHeap, vaults, exported, tracked, imports, nextTok, vaultOp>>
instVars  == <<config, field_configs, consistency, anonVault, returned, anonOp>>
threadVars == <<rng, threads, faked>>
anonVars  == <<instVars, threadVars>>
toolVars  == <<number, luhn, generators>>
vars      == <<detVars, vaultVars, anonVars, toolVars>>

-----------------------------------------------------------------------------
(* Generic helpers *)

Range(f) == {f[x] : x \in DOMAIN f}

Min(a, b) == IF a <= b THEN a ELSE b

\* The map m with key k set to v (a Python dict assignment m[k] = v).
Put(m, k, v) == [x \in DOMAIN m \cup {k} |-> IF x = k THEN v ELSE m[x]]

EmptyMap == [x \in {} |-> x]

-----------------------------------------------------------------------------
(* Detection engine: pii_guard/detector.py *)

\* Bounds of the detect model.
MaxPos == 3

MaxEntities == 3

MaxKeywords == 1

\* The pattern types the scan of the model runs, in registry order.
ScanTypes == <<"PHONE", "DRIVER_LICENSE", "VIN">>

\* self.patterns: the pattern types of the registry, in their order.
Patterns ==
    <<"SSN", "CREDIT_CARD", "IBAN", "BITCOIN_ADDRESS", "ETHEREUM_ADDRESS",
      "ROUTING_NUMBER", "EMAIL", "PHONE", "IP_ADDRESS", "IPV6_ADDRESS",
      "MAC_ADDRESS", "DATE_OF_BIRTH", "DRIVER_LICENSE", "PASSPORT", "VIN",
      "LICENSE_PLATE", "MEDICAL_RECORD", "MEDICARE", "DEA_NUMBER", "NPI",
      "UK_NINO", "CANADA_SIN", "FRANCE_INSEE", "GERMANY_STEUER",
      "INDIA_AADHAAR", "INDIA_PAN", "BANK_ACCOUNT", "SWIFT_CODE",
      "EMPLOYEE_ID", "TAX_ID">>

\* The scan of the whole registry: the context keywords counted in a window
\* and the entities it accepts before detect returns.
MaxScanKeywords == 5

MaxScanEntities == 1

\* confidence_base of the registry, in 0.01.
ConfidenceBase(t) ==
    CASE t = "SSN" -> 95 [] t = "CREDIT_CARD" -> 98 [] t = "IBAN" -> 96
      [] t = "BITCOIN_ADDRESS" -> 94 [] t = "ETHEREUM_ADDRESS" -> 93
      [] t = "ROUTING_NUMBER" -> 88 [] t = "EMAIL" -> 99 [] t = "PHONE" -> 92
      [] t = "IP_ADDRESS" -> 94 [] t = "IPV6_ADDRESS" -> 93 [] t = "MAC_ADDRESS" -> 91
      [] t = "DATE_OF_BIRTH" -> 88 [] t = "DRIVER_LICENSE" -> 85 [] t = "PASSPORT" -> 87
      [] t = "VIN" -> 92 [] t = "LICENSE_PLATE" -> 86 [] t = "MEDICAL_RECORD" -> 96
      [] t = "MEDICARE" -> 91 [] t = "DEA_NUMBER" -> 89 [] t = "NPI" -> 87
      [] t = "UK_NINO" -> 90 [] t = "CANADA_SIN" -> 89 [] t = "FRANCE_INSEE" -> 88
      [] t = "GERMANY_STEUER" -> 87 [] t = "INDIA_AADHAAR" -> 91 [] t = "INDIA_PAN" -> 90
      [] t = "BANK_ACCOUNT" -> 83 [] t = "SWIFT_CODE" -> 91 [] t = "EMPLOYEE_ID" -> 88
      [] t = "TAX_ID" -> 89

\* entity_weights, in 0.01; .get(pii_type, 0.85) for a type without a weight.
EntityWeight(t) ==
    CASE t = "SSN" -> 99 [] t = "CREDIT_CARD" -> 99 [] t = "IBAN" -> 98
      [] t = "BITCOIN_ADDRESS" -> 97 [] t = "ETHEREUM_ADDRESS" -> 96
      [] t = "SWIFT_CODE" -> 98 [] t = "ROUTING_NUMBER" -> 95 [] t = "EMAIL" -> 99
      [] t = "PHONE" -> 97 [] t = "IP_ADDRESS" -> 98 [] t = "IPV6_ADDRESS" -> 97
      [] t = "MAC_ADDRESS" -> 96 [] t = "NAME" -> 96 [] t = "ADDRESS" -> 95
      [] t = "DATE_OF_BIRTH" -> 94 [] t = "VIN" -> 98 [] t = "LICENSE_PLATE" -> 93
      [] t = "MEDICAL_RECORD" -> 99 [] t = "MEDICARE" -> 97 [] t = "DEA_NUMBER" -> 96
      [] t = "NPI" -> 95 [] t = "PASSPORT" -> 97 [] t = "DRIVER_LICENSE" -> 95
      [] t = "UK_NINO" -> 96 [] t = "CANADA_SIN" -> 96 [] t = "FRANCE_INSEE" -> 95
      [] t = "GERMANY_STEUER" -> 94 [] t = "INDIA_AADHAAR" -> 97 [] t = "INDIA_PAN" -> 96
      [] t = "EMPLOYEE_ID" -> 93 [] t = "TAX_ID" -> 94 [] t = "BANK_ACCOUNT" -> 92
      [] OTHER -> 85

\* The types _calculate_confidence has a validator bonus for, and the bonus.
ValidatorBonus(t) ==
    CASE t = "SSN" -> 5000 [] t = "CREDIT_CARD" -> 8000 [] t = "EMAIL" -> 3000
      [] t = "IP_ADDRESS" -> 4000 [] t = "VIN" -> 6000 [] t = "IBAN" -> 7000
      [] t = "BITCOIN_ADDRESS" -> 5000 [] OTHER -> 0

\* _calculate_context_score, for nkw keywords found in the window:
\* 0.2 per keyword, at most 1.0 (in 0.01).
CalculateContextScore(nkw) == Min(100, 20 * nkw)

\* _calculate_confidence: base * weight + 0.1 * context score, plus the
\* validator bonus of a valid value, clamped to 0.99.
CalculateConfidence(t, nkw, valid) ==
    LET weighted == ConfidenceBase(t) * EntityWeight(t) * 10
        scored   == weighted + CalculateContextScore(nkw) * 100
        boosted  == IF valid THEN scored + ValidatorBonus(t) ELSE scored
    IN  Min(99000, boosted)

\* detect, lines 356-362: the penalty of a value its validator rejects.
ValidationPenalty(t, valid, c) ==
    IF t = "VIN" /\ ~valid THEN (c * 7) \div 10
    ELSE IF t = "IBAN" /\ ~valid THEN (c * 6) \div 10
    ELSE IF t = "BITCOIN_ADDRESS" /\ ~valid THEN (c * 8) \div 10
    ELSE c

\* The confidence detect compares with 0.75 for a pattern match.
MatchConfidence(t, nkw, valid) ==
    ValidationPenalty(t, valid, CalculateConfidence(t, nkw, valid))

\* _calculate_name_confidence: 0.88, +0.08 title, +0.05 capitalised,
\* +0.06 name indicator in the context, clamped to 0.99.
CalculateNameConfidence(title, caps, indicator) ==
    Min(99000, 88000 + (IF title THEN 8000 ELSE 0) + (IF caps THEN 5000 ELSE 0)
                     + (IF indicator THEN 6000 ELSE 0))

\* A PIIEntity (text, label, start, end, confidence).  The model keeps of the
\* matched text what the precision filter reads: whether it is an ordinary
\* string, one of the deny-listed placeholders, or a string containing one.
MatchTexts(label) ==
    IF label \in {"PHONE", "IP_ADDRESS"}
    THEN {"ordinary", "placeholder", "embeds_placeholder"}
    ELSE {"ordinary"}

\* match.group() of a match with span sp: the substring text[sp[1]:sp[2]] of
\* the input, and which kind of string it is.
MatchGroup(kind, sp) == [kind |-> kind, start |-> sp[1], end |-> sp[2]]

PIIEntity(text, label, start, end, confidence) ==
    [text |-> text, label |-> label, start |-> start, end |-> end,
     confidence |-> confidence]

\* Two spans overlap: not (end1 <= start2 or start1 >= end2).
Overlap(s1, e1, s2, e2) == ~(e1 <= s2 \/ s1 >= e2)

\* _is_overlapping
IsOverlapping(start, end, ents) ==
    \E i \in 1..Len(ents) : Overlap(start, end, ents[i].start, ents[i].end)

\* _ensemble_voting, lines 597-608: each entity joins the first group that
\* holds an entity it overlaps, or starts a group of its own.
FirstGroup(e, merged) ==
    LET hits == {g \in 1..Len(merged) : IsOverlapping(e.start, e.end, merged[g])}
    IN  IF hits = {} THEN 0 ELSE CHOOSE g \in hits : \A h \in hits : g <= h

RECURSIVE MergeGroups(_, _, _)
MergeGroups(ents, i, merged) ==
    IF i > Len(ents) THEN merged
    ELSE LET e == ents[i]
             g == FirstGroup(e, merged)
         IN  MergeGroups(ents, i + 1,
                 IF g = 0 THEN Append(merged, <<e>>)
                 ELSE [merged EXCEPT ![g] = Append(@, e)])

\* The entity a group would leave if it kept its first member instead of one
\* of maximal confidence.
BestOfFirst(group) == group[1]

\* max(group, key=confidence): the first entity of maximal confidence.
BestOf(group) ==
    LET top == {i \in 1..Len(group) :
                  \A j \in 1..Len(group) : group[j].confidence <= group[i].confidence}
    IN  group[CHOOSE i \in top : \A j \in top : i <= j]

\* The entity a group leaves if the boost of line 620 were not clamped:
\* best.confidence + 0.02 instead of min(0.99, best.confidence + 0.02).
GroupSurvivorUnclamped(group) ==
    IF Len(group) = 1 THEN group[1]
    ELSE LET best == BestOf(group)
         IN  IF Len(group) > 2
             THEN [best EXCEPT !.confidence = best.confidence + 2000]
             ELSE best

\* _ensemble_voting, lines 610-626: the entity a group leaves.
GroupSurvivor(group) ==
    IF Len(group) = 1 THEN group[1]
    ELSE LET best == BestOf(group)
         IN  IF Len(group) > 2
             THEN [best EXCEPT !.confidence = Min(99000, best.confidence + 2000)]
             ELSE best

\* _ensemble_voting
EnsembleVoting(ents) ==
    LET merged == MergeGroups(ents, 1, <<>>)
    IN  [g \in 1..Len(merged) |-> GroupSurvivor(merged[g])]

\* _filter_entities, lines 644-651: the text holds a test pattern of its label.
IsTestData(e) ==
    /\ e.label \in {"PHONE", "IP_ADDRESS"}
    /\ e.text.kind \in {"placeholder", "embeds_placeholder"}

\* _filter_entities, lines 636-641: below the floor of its label.
BelowFloor(e) ==
    \/ e.label = "BANK_ACCOUNT" /\ e.confidence < 88000
    \/ e.label = "DRIVER_LICENSE" /\ e.confidence < 85000
    \/ e.label \in {"EMPLOYEE_ID", "TAX_ID"} /\ e.confidence < 87000

Keeps(e) == ~BelowFloor(e) /\ ~IsTestData(e)

\* _filter_entities
FilterEntities(ents) == SelectSeq(ents, Keeps)

\* sorted(entities, key=start): a stable sort.
RECURSIVE InsertByStart(_, _)
InsertByStart(sorted, e) ==
    IF sorted = <<>> THEN <<e>>
    ELSE IF sorted[Len(sorted)].start <= e.start THEN Append(sorted, e)
    ELSE Append(InsertByStart(SubSeq(sorted, 1, Len(sorted) - 1), e), sorted[Len(sorted)])

RECURSIVE SortByStart(_)
SortByStart(ents) ==
    IF ents = <<>> THEN <<>>
    ELSE InsertByStart(SortByStart(SubSeq(ents, 1, Len(ents) - 1)), ents[Len(ents)])

\* detect, stages 4 and 5 and the return.
Resolve(ents) == SortByStart(FilterEntities(EnsembleVoting(ents)))

Spans == {sp \in (0..MaxPos) \X (0..MaxPos) : sp[1] < sp[2]}

\* The characters of the input text, each known by its offset, and the
\* characters redact writes (at offset -1).
Text == [i \in 1..MaxPos |-> [c |-> "t", at |-> i - 1]]

Written(chars) == [i \in DOMAIN chars |-> [c |-> chars[i], at |-> -1]]

LabelChars(label) ==
    CASE label = "PHONE" -> <<"P", "H", "O", "N", "E">>
      [] label = "DRIVER_LICENSE" ->
           <<"D", "R", "I", "V", "E", "R", "_", "L", "I", "C", "E", "N", "S", "E">>
      [] label = "VIN" -> <<"V", "I", "N">>
      [] label = "NAME" -> <<"N", "A", "M", "E">>
      [] label = "ADDRESS" -> <<"A", "D", "D", "R", "E", "S", "S">>

\* redact, line 680: f"[{entity.label}:{mask_char * 4}]"
Mask(label, mask_char) ==
    Written(<<"[">> \o LabelChars(label) \o <<":", mask_char, mask_char, mask_char,
                                              mask_char, "]">>)

\* The slice s[a:b] of a string, for offsets that are not negative.
Slice(s, a, b) == SubSeq(s, a + 1, Min(b, Len(s)))

\* sorted(entities, key=start, reverse=True): entities of equal start keep
\* their order.
RECURSIVE SortByStartReverse(_)
SortByStartReverse(ents) ==
    IF ents = <<>> THEN <<>>
    ELSE LET e    == ents[Len(ents)]
             rest == SortByStartReverse(SubSeq(ents, 1, Len(ents) - 1))
             NotBefore(x) == x.start >= e.start
             Before(x)    == x.start < e.start
         IN  SelectSeq(rest, NotBefore) \o <<e>> \o SelectSeq(rest, Before)

\* redact, lines 679-681: the loop over entities_sorted from entity i on.
RECURSIVE RedactLoop(_, _, _, _)
RedactLoop(text, entities_sorted, mask_char, i) ==
    IF i > Len(entities_sorted) THEN text
    ELSE LET entity == entities_sorted[i]
         IN  RedactLoop(Slice(text, 0, entity.start) \o Mask(entity.label, mask_char)
                            \o Slice(text, entity.end, Len(text)),
                        entities_sorted, mask_char, i + 1)

\* redact(text, mask_char), after detect returned ents: the redacted string.
Redact(text, ents, mask_char) == RedactLoop(text, SortByStartReverse(ents), mask_char, 1)

\* The arguments detect and redact are called with: a str, or an object of
\* another type (None, bytes).
InputKinds == {"str", "none", "bytes"}

\* The mask characters redact is called with.
MaskChars == {"*", "#"}

DetectInitWith(kind) ==
    /\ input = kind
    /\ stage = "language"
    /\ curType = 1
    /\ lastEnd = 0
    /\ entities = <<>>
    /\ detected = <<>>
    /\ redacted = <<>>

DetectInit == DetectInitWith("str")

\* detect, line 340: _detect_language runs re.search on the argument, which
\* raises TypeError for an argument that is neither str nor bytes, and for
\* bytes (a string pattern on a bytes-like object).
DetectLanguage ==
    /\ stage = "language"
    /\ stage' = IF input = "str" THEN "pattern" ELSE "raised"
    /\ UNCHANGED <<input, curType, lastEnd, entities, detected, redacted>>
    /\ UNCHANGED <<vaultVars, anonVars, toolVars>>

\* The types whose validator rejects some match of the type's own pattern.
\* _validate_vin and _validate_iban accept every match of their patterns
\* (17 characters without I, O, Q; two letters, two digits, 15 to 31 long).
ValidatorCanFail(t) ==
    t \in {"SSN", "CREDIT_CARD", "EMAIL", "IP_ADDRESS", "BITCOIN_ADDRESS"}

\* detect, lines 345-375: one match of the pattern of types[i], with span sp,
\* nkw context keywords in its window and the validator's verdict valid.  The
\* match becomes an entity if its confidence exceeds 0.75.
ScanMatch(types, i, sp, nkw, valid, text) ==
    LET t == types[i]
        c == MatchConfidence(t, nkw, valid)
    IN  /\ (i = curType => sp[1] >= lastEnd)
        /\ (~ValidatorCanFail(t) => valid)
        /\ curType' = i
        /\ lastEnd' = sp[2]
        /\ entities' =
             IF c > 75000
             THEN Append(entities, PIIEntity(MatchGroup(text, sp), t, sp[1], sp[2], Min(99000, c)))
             ELSE entities

\* detect, lines 343-375: finditer gives the next match of a pattern type; the
\* types come in registry order, the matches of one type left to right and
\* disjoint.
PatternMatch ==
    /\ stage = "pattern"
    /\ \E i \in curType..Len(ScanTypes), sp \in Spans, nkw \in 0..MaxKeywords,
          valid \in BOOLEAN :
         \E text \in MatchTexts(ScanTypes[i]) :
            /\ \/ MatchConfidence(ScanTypes[i], nkw, valid) <= 75000
               \/ Len(entities) < MaxEntities
            /\ ScanMatch(ScanTypes, i, sp, nkw, valid, text)
    /\ UNCHANGED <<input, stage, detected, redacted>>
    /\ UNCHANGED <<vaultVars, anonVars, toolVars>>

\* The same step of a scan that runs every pattern of the registry, with up
\* to MaxScanKeywords context keywords in the window.
RegistryMatchWith(i, sp, nkw, valid) ==
    /\ stage = "pattern"
    /\ Len(entities) < MaxScanEntities
    /\ ScanMatch(Patterns, i, sp, nkw, valid, "ordinary")
    /\ UNCHANGED <<input, stage, detected, redacted>>
    /\ UNCHANGED <<vaultVars, anonVars, toolVars>>

RegistryMatch ==
    \E i \in curType..Len(Patterns), sp \in Spans, nkw \in 0..MaxScanKeywords,
       valid \in BOOLEAN : RegistryMatchWith(i, sp, nkw, valid)

\* detect, lines 378-394: a name candidate that overlaps no entity so far.
NameMatch ==
    /\ stage \in {"pattern", "name"}
    /\ Len(entities) < MaxEntities
    /\ \E sp \in Spans, title \in BOOLEAN, caps \in BOOLEAN, indicator \in BOOLEAN :
         LET c == CalculateNameConfidence(title, caps, indicator)
         IN  /\ ~IsOverlapping(sp[1], sp[2], entities)
             /\ c > 80000
             /\ entities' = Append(entities, PIIEntity(MatchGroup("ordinary", sp), "NAME", sp[1], sp[2],
                                                    Min(99000, c)))
    /\ stage' = "name"
    /\ UNCHANGED <<input, curType, lastEnd, detected, redacted>>
    /\ UNCHANGED <<vaultVars, anonVars, toolVars>>

\* detect, lines 397-411: an address candidate that overlaps no entity so far.
AddressMatch ==
    /\ stage \in {"pattern", "name", "address"}
    /\ Len(entities) < MaxEntities
    /\ \E sp \in Spans :
         /\ ~IsOverlapping(sp[1], sp[2], entities)
         /\ entities' = Append(entities, PIIEntity(MatchGroup("ordinary", sp), "ADDRESS", sp[1], sp[2],
                                              95000))
    /\ stage' = "address"
    /\ UNCHANGED <<input, curType, lastEnd, detected, redacted>>
    /\ UNCHANGED <<vaultVars, anonVars, toolVars>>

\* detect, lines 413-419: ensemble voting, the precision filter, the sort.
DetectReturn ==
    /\ stage \in {"pattern", "name", "address"}
    /\ detected' = Resolve(entities)
    /\ stage' = "done"
    /\ UNCHANGED <<input, curType, lastEnd, entities, redacted>>
    /\ UNCHANGED <<vaultVars, anonVars, toolVars>>

\* redact, lines 674-683: the call was redact(text, mask_char); detect
\* returns inside it, the spans are replaced, both results are returned.
RedactReturnWith(mask_char) ==
    /\ stage \in {"pattern", "name", "address"}
    /\ detected' = Resolve(entities)
    /\ redacted' = Redact(Text, detected', mask_char)
    /\ stage' = "redacted"
    /\ UNCHANGED <<input, curType, lastEnd, entities>>
    /\ UNCHANGED <<vaultVars, anonVars, toolVars>>

RedactReturn == \E mask_char \in MaskChars : RedactReturnWith(mask_char)

ScanNext == DetectLanguage \/ RegistryMatch \/ DetectReturn

DetectNext == DetectLanguage \/ PatternMatch \/ NameMatch \/ AddressMatch \/ DetectReturn
                 \/ RedactReturn

-----------------------------------------------------------------------------
(* Token vault: pii_guard/anonymizer.py, class TokenVault *)

\* Bounds of the vault model.
MaxTokens == 2

MaxExports == 1

MaxImports == 1

Vaults == {"A", "B"}

VaultFieldTypes == {"email", "phone"}

\* The values the callers tokenize (strings, as sequences of characters).
VaultValues == {<<"a">>, <<"b">>, <<"c">>}

\* sha256(value).hexdigest()[:16]: a 64-bit digest of a string of any length,
\* so distinct values can share one; "c" stands for a value whose digest is
\* that of "a".
ValueHash(value) ==
    IF value = <<"c">> THEN <<"sha256[:16]", "a">> ELSE <<"sha256[:16]">> \o value

\* str.upper() of a field type.
Upper(ft) ==
    CASE ft = "email" -> "EMAIL" [] ft = "phone" -> "PHONE" [] ft = "name" -> "NAME"
      [] ft = "ssn" -> "SSN" [] ft = "date" -> "DATE" [] ft = "numeric" -> "NUMERIC"
      [] ft = "text" -> "TEXT" [] ft = "address" -> "ADDRESS"
      [] ft = "credit_card" -> "CREDIT_CARD" [] OTHER -> ft

\* f"TOK_{field_type.upper()}_{uuid4().hex[:12]}" for the n-th uuid drawn: the
\* hex digits of the n-th uuid are written as n marks.
NewToken(field_type, n) == <<"TOK_", Upper(field_type), "_">> \o [i \in 1..n |-> "#"]

\* The strings given to detokenize: each is a token of the vaults or a string
\* of that form that no vault minted.
AllTokens == {NewToken(ft, n) : ft \in VaultFieldTypes, n \in 1..MaxTokens}

\* Python's None as the result of a lookup.
NotFound == [found |-> FALSE, value |-> <<>>]

Found(value) == [found |-> TRUE, value |-> value]

\* tokenize without the lookup of lines 170-171: a token is minted every time.
TokenizeAlwaysMints(fwd, rev, value, field_type, n) ==
    LET fresh == field_type \notin DOMAIN fwd
        fwd1  == IF fresh THEN Put(fwd, field_type, EmptyMap) ELSE fwd
        rev1  == IF fresh THEN Put(rev, field_type, EmptyMap) ELSE rev
        token == NewToken(field_type, n + 1)
    IN  [token |-> token,
         fwd |-> [fwd1 EXCEPT ![field_type] = Put(@, ValueHash(value), token)],
         rev |-> [rev1 EXCEPT ![field_type] = Put(@, token, value)],
         minted |-> TRUE]

\* TokenVault.tokenize on the dicts fwd (_vault) and rev (_reverse); n is the
\* number of uuids drawn so far.  Gives the token and the dicts afterwards.
Tokenize(fwd, rev, value, field_type, n) ==
    LET fresh == field_type \notin DOMAIN fwd
        fwd1  == IF fresh THEN Put(fwd, field_type, EmptyMap) ELSE fwd
        rev1  == IF fresh THEN Put(rev, field_type, EmptyMap) ELSE rev
        value_hash == ValueHash(value)
    IN  IF value_hash \in DOMAIN fwd1[field_type]
        THEN [token |-> fwd1[field_type][value_hash], fwd |-> fwd1, rev |-> rev1,
              minted |-> FALSE]
        ELSE LET token == NewToken(field_type, n + 1)
             IN  [token |-> token,
                  fwd |-> [fwd1 EXCEPT ![field_type] = Put(@, value_hash, token)],
                  rev |-> [rev1 EXCEPT ![field_type] = Put(@, token, value)],
                  minted |-> TRUE]

\* TokenVault.detokenize on the dict rev (_reverse).
Detokenize(rev, token, field_type) ==
    IF field_type \notin DOMAIN rev THEN NotFound
    ELSE IF token \in DOMAIN rev[field_type] THEN Found(rev[field_type][token])
    ELSE NotFound

\* TokenVault.export_vault: a new dict that refers to the vault's two dicts.
ExportData(v) == [vault |-> vaults[v].vault, reverse |-> vaults[v].reverse]

\* What a dict returned by export_vault holds, followed through its references.
Contents(data) == [vault |-> fwdHeap[data.vault], reverse |-> revHeap[data.reverse]]

\* The two maps of a vault.
VaultMaps(v) == [vault |-> fwdHeap[vaults[v].vault], reverse |-> revHeap[vaults[v].reverse]]

NoVaultOp == [op |-> "none", vault |-> "", ft |-> "", value |-> <<>>, token |-> <<>>,
              result |-> NotFound, minted |-> FALSE]

Untracked == [set |-> FALSE, vault |-> "", ft |-> "", value |-> <<>>, token |-> <<>>,
              live |-> FALSE, unseen |-> FALSE]

\* TokenVault.__init__ for each vault: two empty dicts of its own.
VaultInit ==
    /\ fwdHeap = [v \in Vaults |-> EmptyMap]
    /\ revHeap = [v \in Vaults |-> EmptyMap]
    /\ vaults = [v \in Vaults |-> [vault |-> v, reverse |-> v]]
    /\ exported = <<>>
    /\ tracked = Untracked
    /\ imports = 0
    /\ nextTok = 0
    /\ vaultOp = NoVaultOp

\* The state after vault.tokenize(value, field_type) gave r; track says
\* whether this call is the one the history keeps.
TokenizeDone(v, value, field_type, track, r) ==
    /\ r.minted => nextTok < MaxTokens
    /\ track => ~tracked.set
    /\ fwdHeap' = [fwdHeap EXCEPT ![vaults[v].vault] = r.fwd]
    /\ revHeap' = [revHeap EXCEPT ![vaults[v].reverse] = r.rev]
    /\ nextTok' = IF r.minted THEN nextTok + 1 ELSE nextTok
    /\ tracked' = IF track
                  THEN [set |-> TRUE, vault |-> v, ft |-> field_type, value |-> value,
                        token |-> r.token, live |-> TRUE, unseen |-> r.minted]
                  ELSE tracked
    /\ vaultOp' = [op |-> "tokenize", vault |-> v, ft |-> field_type, value |-> value,
                   token |-> r.token, result |-> NotFound, minted |-> r.minted]
    /\ UNCHANGED <<vaults, exported, imports>>
    /\ UNCHANGED <<detVars, anonVars, toolVars>>

\* vault.tokenize(value, field_type)
TokenizeCall ==
    \E v \in Vaults, value \in VaultValues, field_type \in VaultFieldTypes,
       track \in BOOLEAN :
        TokenizeDone(v, value, field_type, track,
            Tokenize(fwdHeap[vaults[v].vault], revHeap[vaults[v].reverse], value,
                     field_type, nextTok))

\* vault.detokenize(token, field_type)
DetokenizeCall ==
    \E v \in Vaults, token \in AllTokens, field_type \in VaultFieldTypes :
        /\ vaultOp' = [op |-> "detokenize", vault |-> v, ft |-> field_type,
                       value |-> <<>>, token |-> token,
                       result |-> Detokenize(revHeap[vaults[v].reverse], token, field_type),
                       minted |-> FALSE]
        /\ UNCHANGED <<fwdHeap, revHeap, vaults, exported, tracked, imports, nextTok>>
        /\ UNCHANGED <<detVars, anonVars, toolVars>>

\* data = vault.export_vault()
ExportCall ==
    \E v \in Vaults :
        /\ Len(exported) < MaxExports
        /\ exported' = Append(exported, ExportData(v))
        /\ vaultOp' = [NoVaultOp EXCEPT !.op = "export", !.vault = v]
        /\ UNCHANGED <<fwdHeap, revHeap, vaults, tracked, imports, nextTok>>
        /\ UNCHANGED <<detVars, anonVars, toolVars>>

\* vault.import_vault(data), data one of the dicts export_vault returned:
\* data.get("vault", {}) and data.get("reverse", {}) become the vault's dicts.
ImportCall ==
    \E v \in Vaults, x \in 1..Len(exported) :
        /\ imports < MaxImports
        /\ vaults' = [vaults EXCEPT ![v] = [vault |-> exported[x].vault,
                                            reverse |-> exported[x].reverse]]
        /\ imports' = imports + 1
        /\ tracked' = IF tracked.set
                      THEN [tracked EXCEPT !.live = @ /\ tracked.vault # v,
                                           !.unseen = FALSE]
                      ELSE tracked
        /\ vaultOp' = [NoVaultOp EXCEPT !.op = "import", !.vault = v]
        /\ UNCHANGED <<fwdHeap, revHeap, exported, nextTok>>
        /\ UNCHANGED <<detVars, anonVars, toolVars>>

VaultNext == TokenizeCall \/ DetokenizeCall \/ ExportCall \/ ImportCall

-----------------------------------------------------------------------------
(* Python values and strings *)

\* A Python value: None, a str (its characters), an int, a float with an
\* integral value, or an int beyond the range of float (such as 10**400).
PyNone == [k |-> "none", s |-> <<>>, n |-> 0]

PyStr(chars) == [k |-> "str", s |-> chars, n |-> 0]

PyInt(n) == [k |-> "int", s |-> <<>>, n |-> n]

PyFloat(n) == [k |-> "float", s |-> <<>>, n |-> n]

PyBigInt == [k |-> "bigint", s |-> <<>>, n |-> 0]

DigitChars == <<"0", "1", "2", "3", "4", "5", "6", "7", "8", "9">>

Digits == Range(DigitChars)

Letters ==
    {
     "a", "b", "c", "d", "e", "f", "g", "h", "i", "j", "k", "l", "m", "n",
     "o", "p", "q", "r", "s", "t", "u", "v", "w", "x", "y", "z", "A", "B",
     "C", "D", "E", "F", "G", "H", "I", "J", "K", "L", "M", "N", "O", "P",
     "Q", "R", "S", "T", "U", "V", "W", "X", "Y", "Z"
    }

\* The value of a digit character.
DigitValue(c) == (CHOOSE i \in 1..10 : DigitChars[i] = c) - 1

\* str(n) for an int n >= 0.
RECURSIVE IntStr(_)
IntStr(n) ==
    IF n < 10 THEN <<DigitChars[n + 1]>>
    ELSE Append(IntStr(n \div 10), DigitChars[(n % 10) + 1])

\* str(value)
Stringify(value) ==
    CASE value.k = "none" -> <<"N", "o", "n", "e">>
      [] value.k = "str" -> value.s
      [] value.k = "int" -> IntStr(value.n)
      [] value.k = "float" -> IntStr(value.n) \o <<".", "0">>
      [] value.k = "bigint" -> <<"1", "0", "*", "*", "4", "0", "0">>

\* The number a string of decimal digits denotes.
RECURSIVE DigitsValue(_)
DigitsValue(chars) ==
    IF chars = <<>> THEN 0
    ELSE 10 * DigitsValue(SubSeq(chars, 1, Len(chars) - 1)) + DigitValue(chars[Len(chars)])

\* float(value): a number, a ValueError or TypeError (which NumericAnonymizer
\* catches), or an OverflowError (which it does not).  Of the strings, those
\* made of decimal digits are the numbers of the model.
ToFloat(value) ==
    CASE value.k = "none" -> [status |-> "TypeError", num |-> 0]
      [] value.k = "int" -> [status |-> "ok", num |-> value.n]
      [] value.k = "float" -> [status |-> "ok", num |-> value.n]
      [] value.k = "bigint" -> [status |-> "OverflowError", num |-> 0]
      [] value.k = "str" ->
           IF value.s # <<>> /\ \A i \in 1..Len(value.s) : value.s[i] \in Digits
           THEN [status |-> "ok", num |-> DigitsValue(value.s)]
           ELSE [status |-> "ValueError", num |-> 0]

\* The index of the first character c of chars, 0 if there is none.
IndexOf(chars, c) ==
    LET hits == {i \in 1..Len(chars) : chars[i] = c}
    IN  IF hits = {} THEN 0 ELSE CHOOSE i \in hits : \A j \in hits : i <= j

-----------------------------------------------------------------------------
(* Anonymization strategies: pii_guard/anonymizer.py *)

\* AnonymizationMethod
Methods == {"redact", "mask", "hash", "tokenize", "fake", "generalize", "shuffle",
            "null", "preserve"}

\* FieldConfig; params holds the parameter the strategies of the model read.
FieldConfig(field_name, field_type, method, params) ==
    [field_name |-> field_name, field_type |-> field_type, method |-> method,
     params |-> params]

\* params.get("ranges", [[0, 10], [11, 20], [21, 50], [51, 100]])
DefaultRanges == <<<<0, 10>>, <<11, 20>>, <<21, 50>>, <<51, 100>>>>

\* params.get("show_last", 4)
DefaultShowLast == 4

\* FieldConfig.params as the strategies read it: ranges, show_last and
\* mask_char with the defaults of their get() calls when the key is absent,
\* precision empty when the key is absent (its default differs by strategy).
Params(ranges, show_last, mask_char, precision) ==
    [ranges |-> ranges, show_last |-> show_last, mask_char |-> mask_char,
     precision |-> precision]

NoParams == Params(DefaultRanges, DefaultShowLast, "*", "")

\* The outcome of a strategy call: the value it returns or the exception it
\* lets escape, and the instance's token vault afterwards.
Returns(value, vault) == [status |-> "ok", value |-> value, vault |-> vault]

Raises(exception, vault) == [status |-> exception, value |-> PyNone, vault |-> vault]

\* EmailAnonymizer.anonymize.  A digest or a seeded draw of a string is
\* written as the string it was taken of, between marks.
EmailAnonymizer(value, fc, vault) ==
    IF value.k = "none" THEN Returns(PyNone, vault)
    ELSE
    LET email == Stringify(value)
        at    == IndexOf(email, "@")
    IN  CASE fc.method = "redact" -> Returns(PyStr(<<"[EMAIL_REDACTED]">>), vault)
          [] fc.method = "mask" ->
               IF at > 0
               THEN LET local  == SubSeq(email, 1, at - 1)
                        domain == SubSeq(email, at + 1, Len(email))
                        masked_local == IF Len(local) > 1 THEN <<local[1], "***">>
                                        ELSE <<"***">>
                    IN  Returns(PyStr(masked_local \o <<"@">> \o domain), vault)
               ELSE Returns(PyStr(<<"***@***.***">>), vault)
          [] fc.method = "hash" ->
               Returns(PyStr(<<"anon_", "sha256[:12](">> \o email \o <<")", "@example.com">>),
                       vault)
          [] fc.method = "fake" ->
               Returns(PyStr(<<"fake_email(">> \o email \o <<")">>), vault)
          [] fc.method = "tokenize" ->
               IF vault.present
               THEN LET r == Tokenize(vault.fwd, vault.rev, email, "email", vault.tok)
                    IN  Returns(PyStr(r.token),
                                [present |-> TRUE, fwd |-> r.fwd, rev |-> r.rev,
                                 tok |-> IF r.minted THEN vault.tok + 1 ELSE vault.tok])
               ELSE Returns(PyStr(<<"TOK_EMAIL_", "md5[:12](">> \o email \o <<")">>), vault)
          [] OTHER -> Returns(PyStr(<<"[EMAIL_REDACTED]">>), vault)

\* The numeric GENERALIZE that returns the label of the last range holding
\* num, not of the first.
GeneralizeLast(ranges, num) ==
    LET hits == {i \in 1..Len(ranges) : ranges[i][1] <= num /\ num <= ranges[i][2]}
    IN  IF hits = {} THEN PyStr(<<"o", "t", "h", "e", "r">>)
        ELSE LET r == ranges[CHOOSE i \in hits : \A j \in hits : i >= j]
             IN  PyStr(IntStr(r[1]) \o <<"-">> \o IntStr(r[2]))

\* NumericAnonymizer.anonymize, lines 410-415: the first range that holds num.
Generalize(ranges, num) ==
    LET hits == {i \in 1..Len(ranges) : ranges[i][1] <= num /\ num <= ranges[i][2]}
    IN  IF hits = {} THEN PyStr(<<"o", "t", "h", "e", "r">>)
        ELSE LET r == ranges[CHOOSE i \in hits : \A j \in hits : i <= j]
             IN  PyStr(IntStr(r[1]) \o <<"-">> \o IntStr(r[2]))

\* NumericAnonymizer.anonymize without the except clause of lines 401-403:
\* every exception of float(value) escapes.
NumericAnonymizerRaises(value, fc, vault) ==
    IF value.k = "none" THEN Returns(PyNone, vault)
    ELSE
    LET f == ToFloat(value)
    IN  IF f.status # "ok" THEN Raises(f.status, vault)
        ELSE CASE fc.method = "redact" -> Returns(PyInt(0), vault)
               [] fc.method = "generalize" ->
                    Returns(Generalize(fc.params.ranges, f.num), vault)
               [] fc.method = "fake" ->
                    Returns([k |-> "jitter", s |-> Stringify(value), n |-> f.num], vault)
               [] OTHER -> Returns(PyFloat(f.num), vault)

\* NumericAnonymizer.anonymize.  The jittered number of FAKE is written as
\* the value it was drawn for.
NumericAnonymizer(value, fc, vault) ==
    IF value.k = "none" THEN Returns(PyNone, vault)
    ELSE
    LET f == ToFloat(value)
    IN  IF f.status \in {"ValueError", "TypeError"} THEN Returns(PyNone, vault)
        ELSE IF f.status # "ok" THEN Raises(f.status, vault)
        ELSE CASE fc.method = "redact" -> Returns(PyInt(0), vault)
               [] fc.method = "generalize" ->
                    Returns(Generalize(fc.params.ranges, f.num), vault)
               [] fc.method = "fake" ->
                    Returns([k |-> "jitter", s |-> Stringify(value), n |-> f.num], vault)
               [] OTHER -> Returns(PyFloat(f.num), vault)

\* re.sub(r'[a-zA-Z0-9]', '*', text)
MaskAlnum(text) ==
    [i \in 1..Len(text) |-> IF text[i] \in Letters \cup Digits THEN "*" ELSE text[i]]

\* TextAnonymizer.anonymize
TextAnonymizer(value, fc, vault) ==
    IF value.k = "none" THEN Returns(PyNone, vault)
    ELSE
    LET text == Stringify(value)
    IN  CASE fc.method = "redact" -> Returns(PyStr(<<"[TEXT_REDACTED]">>), vault)
          [] fc.method = "hash" ->
               Returns(PyStr(<<"text_", "sha256[:16](">> \o text \o <<")">>), vault)
          [] fc.method = "mask" -> Returns(PyStr(MaskAlnum(text)), vault)
          [] fc.method = "preserve" -> Returns(PyStr(text), vault)
          [] OTHER -> Returns(PyStr(<<"[TEXT_REDACTED]">>), vault)

\* re.sub(r'\D', '', text): the digits of a string, in order.
DigitsOf(text) == SelectSeq(text, LAMBDA c : c \in Digits)

\* mask_char * n
Repeat(mask_char, n) == [i \in 1..n |-> mask_char]

\* digits[-show_last:] for show_last >= 0: the slice from index -show_last,
\* which for show_last = 0 is index 0, so the whole string.
LastSlice(digits, show_last) ==
    IF show_last = 0 \/ show_last >= Len(digits) THEN digits
    ELSE SubSeq(digits, Len(digits) - show_last + 1, Len(digits))

\* The MASK branch of PhoneAnonymizer and CreditCardAnonymizer.
MaskDigits(digits, show_last, mask_char) ==
    IF Len(digits) > show_last
    THEN Repeat(mask_char, Len(digits) - show_last) \o LastSlice(digits, show_last)
    ELSE Repeat(mask_char, Len(digits))

\* PhoneAnonymizer.anonymize
PhoneAnonymizer(value, fc, vault) ==
    IF value.k = "none" THEN Returns(PyNone, vault)
    ELSE
    LET phone  == Stringify(value)
        digits == DigitsOf(phone)
    IN  CASE fc.method = "redact" -> Returns(PyStr(<<"[PHONE_REDACTED]">>), vault)
          [] fc.method = "mask" ->
               Returns(PyStr(MaskDigits(digits, fc.params.show_last, fc.params.mask_char)),
                       vault)
          [] fc.method = "hash" ->
               Returns(PyStr(<<"+1", "sha256[:10](">> \o phone \o <<")">>), vault)
          [] fc.method = "fake" ->
               Returns(PyStr(<<"fake_phone(">> \o phone \o <<")">>), vault)
          [] OTHER -> Returns(PyStr(<<"[PHONE_REDACTED]">>), vault)

\* str.split(): the maximal runs of characters other than the space.
RECURSIVE Split(_, _, _)
Split(text, i, part) ==
    IF i > Len(text) THEN (IF part = <<>> THEN <<>> ELSE <<part>>)
    ELSE IF text[i] = " "
         THEN (IF part = <<>> THEN <<>> ELSE <<part>>) \o Split(text, i + 1, <<>>)
         ELSE Split(text, i + 1, Append(part, text[i]))

\* " ".join(parts)
RECURSIVE Join(_)
Join(parts) ==
    IF parts = <<>> THEN <<>>
    ELSE IF Len(parts) = 1 THEN parts[1]
    ELSE parts[1] \o <<" ">> \o Join(Tail(parts))

\* NameAnonymizer.anonymize
NameAnonymizer(value, fc, vault) ==
    IF value.k = "none" THEN Returns(PyNone, vault)
    ELSE
    LET name == Stringify(value)
    IN  CASE fc.method = "redact" -> Returns(PyStr(<<"[NAME_REDACTED]">>), vault)
          [] fc.method = "mask" ->
               LET parts  == Split(name, 1, <<>>)
                   masked == [i \in 1..Len(parts) |->
                                 IF Len(parts[i]) > 1 THEN <<parts[i][1], "***">>
                                 ELSE <<"***">>]
               IN  Returns(PyStr(Join(masked)), vault)
          [] fc.method = "hash" ->
               Returns(PyStr(<<"User_", "sha256[:8](">> \o name \o <<")">>), vault)
          [] fc.method = "fake" ->
               Returns(PyStr(<<"fake_name(">> \o name \o <<")">>), vault)
          [] OTHER -> Returns(PyStr(<<"[NAME_REDACTED]">>), vault)

\* SSNAnonymizer.anonymize
SSNAnonymizer(value, fc, vault) ==
    IF value.k = "none" THEN Returns(PyNone, vault)
    ELSE
    LET ssn    == Stringify(value)
        digits == DigitsOf(ssn)
    IN  CASE fc.method = "redact" -> Returns(PyStr(<<"[SSN_REDACTED]">>), vault)
          [] fc.method = "mask" ->
               IF Len(digits) >= 4
               THEN Returns(PyStr(<<"***-**-">> \o SubSeq(digits, Len(digits) - 3, Len(digits))),
                            vault)
               ELSE Returns(PyStr(<<"***-**-****">>), vault)
          [] fc.method = "hash" ->
               Returns(PyStr(<<"sha256[:3](">> \o ssn \o <<")", "-", "sha256[3:5](">> \o ssn
                             \o <<")", "-", "sha256[5:9](">> \o ssn \o <<")">>), vault)
          [] fc.method = "fake" ->
               Returns(PyStr(<<"fake_ssn(">> \o ssn \o <<")">>), vault)
          [] OTHER -> Returns(PyStr(<<"[SSN_REDACTED]">>), vault)

\* datetime.fromisoformat(text): of the strings, the dates of the model are
\* YYYY-MM-DD, alone or followed by "T" and a time (the time one element),
\* with a day every month has.  Gives the year, month and day as written, or
\* a ValueError.
FromIsoFormat(text) ==
    LET shaped == /\ Len(text) \in {10, 12}
                  /\ \A i \in {1, 2, 3, 4, 6, 7, 9, 10} : text[i] \in Digits
                  /\ text[5] = "-" /\ text[8] = "-"
                  /\ Len(text) = 12 => text[11] = "T"
    IN  IF /\ shaped
           /\ DigitsValue(SubSeq(text, 6, 7)) \in 1..12
           /\ DigitsValue(SubSeq(text, 9, 10)) \in 1..28
        THEN [status |-> "ok", year |-> SubSeq(text, 1, 4), month |-> SubSeq(text, 6, 7),
              day |-> SubSeq(text, 9, 10)]
        ELSE [status |-> "ValueError", year |-> <<>>, month |-> <<>>, day |-> <<>>]

\* DateAnonymizer.anonymize, for values that are None or strings.
DateAnonymizer(value, fc, vault) ==
    IF value.k = "none" THEN Returns(PyNone, vault)
    ELSE
    LET dt  == FromIsoFormat(Stringify(value))
        ymd == dt.year \o <<"-">> \o dt.month \o <<"-">> \o dt.day
        precision == IF fc.params.precision = "" THEN "month" ELSE fc.params.precision
    IN  IF dt.status # "ok" THEN Returns(PyStr(<<"[DATE_REDACTED]">>), vault)
        ELSE CASE fc.method = "redact" -> Returns(PyStr(<<"[DATE_REDACTED]">>), vault)
               [] fc.method = "generalize" /\ precision = "year" ->
                    Returns(PyStr(dt.year \o <<"-", "0", "1", "-", "0", "1">>), vault)
               [] fc.method = "generalize" /\ precision = "month" ->
                    Returns(PyStr(dt.year \o <<"-">> \o dt.month \o <<"-", "0", "1">>), vault)
               [] fc.method = "generalize" /\ precision = "decade" ->
                    Returns(PyStr(IntStr((DigitsValue(dt.year) \div 10) * 10)
                                  \o <<"-", "0", "1", "-", "0", "1">>), vault)
               [] fc.method = "fake" ->
                    Returns(PyStr(<<"fake_date(">> \o Stringify(value) \o <<")">>), vault)
               [] OTHER -> Returns(PyStr(ymd), vault)

\* A character of \w.
IsWordChar(c) == c \in Letters \cup Digits \cup {"_"}

\* re.search(r'\b\d{5}(?:-\d{4})?\b', address): the first match, <<>> if none.
ZipSearch(address) ==
    LET n == Len(address)
        digitsAt(i, k) == i + k - 1 <= n /\ \A j \in i..(i + k - 1) : address[j] \in Digits
        endsWord(i) == i > n \/ ~IsWordChar(address[i])
        plus4(i) == /\ digitsAt(i, 5) /\ i + 5 <= n /\ address[i + 5] = "-"
                    /\ digitsAt(i + 6, 4) /\ endsWord(i + 10)
        starts(i) == /\ (i = 1 \/ ~IsWordChar(address[i - 1]))
                     /\ digitsAt(i, 5)
                     /\ (plus4(i) \/ endsWord(i + 5))
        hits == {i \in 1..n : starts(i)}
    IN  IF hits = {} THEN <<>>
        ELSE LET i == CHOOSE h \in hits : \A g \in hits : h <= g
             IN  IF plus4(i) THEN SubSeq(address, i, i + 9) ELSE SubSeq(address, i, i + 4)

\* AddressAnonymizer.anonymize
AddressAnonymizer(value, fc, vault) ==
    IF value.k = "none" THEN Returns(PyNone, vault)
    ELSE
    LET address == Stringify(value)
        precision == IF fc.params.precision = "" THEN "city" ELSE fc.params.precision
    IN  CASE fc.method = "redact" -> Returns(PyStr(<<"[ADDRESS_REDACTED]">>), vault)
          [] fc.method = "fake" ->
               Returns(PyStr(<<"fake_address(">> \o address \o <<")">>), vault)
          [] fc.method = "generalize" ->
               IF precision = "zip" /\ ZipSearch(address) # <<>>
               THEN Returns(PyStr(ZipSearch(address)), vault)
               ELSE Returns(PyStr(<<"[LOCATION_GENERALIZED]">>), vault)
          [] OTHER -> Returns(PyStr(<<"[ADDRESS_REDACTED]">>), vault)

\* CreditCardAnonymizer.anonymize
CreditCardAnonymizer(value, fc, vault) ==
    IF value.k = "none" THEN Returns(PyNone, vault)
    ELSE
    LET cc     == Stringify(value)
        digits == DigitsOf(cc)
    IN  CASE fc.method = "redact" -> Returns(PyStr(<<"[CC_REDACTED]">>), vault)
          [] fc.method = "mask" ->
               Returns(PyStr(MaskDigits(digits, fc.params.show_last, fc.params.mask_char)),
                       vault)
          [] fc.method = "hash" ->
               Returns(PyStr(<<"sha256[:16](">> \o cc \o <<")">>), vault)
          [] OTHER -> Returns(PyStr(<<"[CC_REDACTED]">>), vault)

\* self.anonymizers.get(config.field_type, self.anonymizers["text"]).anonymize
Anonymize(value, fc, vault) ==
    CASE fc.field_type = "email" -> EmailAnonymizer(value, fc, vault)
      [] fc.field_type = "phone" -> PhoneAnonymizer(value, fc, vault)
      [] fc.field_type = "name" -> NameAnonymizer(value, fc, vault)
      [] fc.field_type = "ssn" -> SSNAnonymizer(value, fc, vault)
      [] fc.field_type = "date" -> DateAnonymizer(value, fc, vault)
      [] fc.field_type = "numeric" -> NumericAnonymizer(value, fc, vault)
      [] fc.field_type = "address" -> AddressAnonymizer(value, fc, vault)
      [] fc.field_type = "credit_card" -> CreditCardAnonymizer(value, fc, vault)
      [] OTHER -> TextAnonymizer(value, fc, vault)

-----------------------------------------------------------------------------
(* DataAnonymizer: pii_guard/anonymizer.py *)

\* Bound of the anonymizer model: the longest batch given to anonymize_records.
MaxBatch == 2

\* Table and field names are strings, written as sequences of pieces with
\* every "." a piece of its own.
UsersTable == <<"users">>

UnknownTable == <<"staging">>

TableConfig(table_name, fields) == [table_name |-> table_name, fields |-> fields]

AnonymizationConfig(tables, preserve_nulls, use_token_vault) ==
    [tables |-> tables, preserve_nulls |-> preserve_nulls,
     use_token_vault |-> use_token_vault]

\* The configurations an instance of the model is built from: one table with
\* an email field and a numeric field, and a field "id" left unconfigured.
ConfigChoices ==
    {AnonymizationConfig(
        <<TableConfig(UsersTable,
            <<FieldConfig(<<"email">>, "email", em, NoParams),
              FieldConfig(<<"age">>, "numeric", nm, NoParams)>>)>>,
        pn, tv) :
     em \in {"mask", "tokenize"}, nm \in {"generalize", "preserve"},
     pn \in BOOLEAN, tv \in BOOLEAN}

\* DataAnonymizer.__init__, lines 562-566: self.field_configs.
FieldConfigs(cfg) ==
    LET names == {cfg.tables[i].table_name : i \in 1..Len(cfg.tables)}
        last(name) == CHOOSE i \in 1..Len(cfg.tables) :
                         /\ cfg.tables[i].table_name = name
                         /\ \A j \in (i + 1)..Len(cfg.tables) : cfg.tables[j].table_name # name
        byName(fields) ==
            [fname \in {fields[i].field_name : i \in 1..Len(fields)} |->
                fields[CHOOSE i \in 1..Len(fields) :
                         /\ fields[i].field_name = fname
                         /\ \A j \in (i + 1)..Len(fields) : fields[j].field_name # fname]]
    IN  [name \in names |-> byName(cfg.tables[last(name)].fields)]

\* f"{table_name}.{field_name}"
ConsistencyKey(table_name, field_name) == table_name \o <<".">> \o field_name

\* A record is a dict: its items in order, each [name |-> .., value |-> ..].
Item(name, value) == [name |-> name, value |-> value]

\* A configured field if the consistency map were never looked up (without
\* lines 592-595): the strategy is called for every value.
AnonymizeFieldNoLookup(cfg, item, table_name, st, r) ==
    LET field_name == item.name
        value      == item.value
        key        == ConsistencyKey(table_name, field_name)
        text       == Stringify(value)
        cached     == FALSE
        cons1      == IF key \in DOMAIN st.consistency THEN st.consistency
                      ELSE Put(st.consistency, key, EmptyMap)
        out        == IF value.k = "none" /\ cfg.preserve_nulls THEN PyNone
                      ELSE IF cached THEN st.consistency[key][text]
                      ELSE r.value
        missed     == ~(value.k = "none" /\ cfg.preserve_nulls) /\ ~cached
        call       == [table |-> table_name, field |-> field_name, value |-> value,
                       status |-> r.status]
    IN  IF missed /\ r.status # "ok"
        THEN [st EXCEPT !.status = r.status, !.vault = r.vault,
                        !.invoked = Append(@, call)]
        ELSE [st EXCEPT
                !.invoked = IF missed THEN Append(@, call) ELSE @,
                !.result = Append(@, Item(field_name, out)),
                !.consistency = IF missed THEN [cons1 EXCEPT ![key] = Put(@, text, out)]
                                ELSE @,
                !.vault = IF missed THEN r.vault ELSE @,
                !.given = Append(@, [table |-> table_name, field |-> field_name,
                                     value |-> value, out |-> out])]

\* anonymize_record, lines 587-606: a configured field.  r is what the
\* strategy of the field gives for the value; it is called on a cache miss.
\* st holds result, the consistency map and the vault so far, and the values
\* given to configured fields (kept for the history of the calls); invoked
\* lists the calls of a strategy, those that raised included.
AnonymizeField(cfg, item, table_name, st, r) ==
    LET field_name == item.name
        value      == item.value
        key        == ConsistencyKey(table_name, field_name)
        text       == Stringify(value)
        cached     == /\ value.k # "none"
                      /\ key \in DOMAIN st.consistency
                      /\ text \in DOMAIN st.consistency[key]
        cons1      == IF key \in DOMAIN st.consistency THEN st.consistency
                      ELSE Put(st.consistency, key, EmptyMap)
        out        == IF value.k = "none" /\ cfg.preserve_nulls THEN PyNone
                      ELSE IF cached THEN st.consistency[key][text]
                      ELSE r.value
        missed     == ~(value.k = "none" /\ cfg.preserve_nulls) /\ ~cached
        call       == [table |-> table_name, field |-> field_name, value |-> value,
                       status |-> r.status]
    IN  IF missed /\ r.status # "ok"
        THEN [st EXCEPT !.status = r.status, !.vault = r.vault,
                        !.invoked = Append(@, call)]
        ELSE [st EXCEPT
                !.invoked = IF missed THEN Append(@, call) ELSE @,
                !.result = Append(@, Item(field_name, out)),
                !.consistency = IF missed THEN [cons1 EXCEPT ![key] = Put(@, text, out)]
                                ELSE @,
                !.vault = IF missed THEN r.vault ELSE @,
                !.given = Append(@, [table |-> table_name, field |-> field_name,
                                     value |-> value, out |-> out])]

\* The body of the loop without the else branch of lines 607-608: a field
\* that has no configuration is left out of the result.
AnonymizeItemDropsOthers(cfg, fcs, item, table_name, st) ==
    IF item.name \notin DOMAIN fcs[table_name]
    THEN st
    ELSE AnonymizeField(cfg, item, table_name, st,
                        Anonymize(item.value, fcs[table_name][item.name], st.vault))

\* anonymize_record, lines 583-608: the body of the loop over record.items().
AnonymizeItem(cfg, fcs, item, table_name, st) ==
    IF item.name \notin DOMAIN fcs[table_name]
    THEN [st EXCEPT !.result = Append(@, Item(item.name, item.value))]
    ELSE AnonymizeField(cfg, item, table_name, st,
                        Anonymize(item.value, fcs[table_name][item.name], st.vault))

\* The loop over record.items() from item i on; an exception ends it.
RECURSIVE AnonymizeItems(_, _, _, _, _, _)
AnonymizeItems(cfg, fcs, record, table_name, i, st) ==
    IF i > Len(record) \/ st.status # "ok" THEN st
    ELSE AnonymizeItems(cfg, fcs, record, table_name, i + 1,
                        AnonymizeItem(cfg, fcs, record[i], table_name, st))

\* anonymize_record without the early return of lines 577-578: a record of a
\* table that has no configuration comes back empty.
AnonymizeRecordNoEarlyReturn(cfg, fcs, cons, vault, record, table_name) ==
    IF table_name \notin DOMAIN fcs
    THEN [status |-> "ok", result |-> <<>>, consistency |-> cons, vault |-> vault,
          given |-> <<>>, invoked |-> <<>>]
    ELSE AnonymizeItems(cfg, fcs, record, table_name, 1,
             [status |-> "ok", result |-> <<>>, consistency |-> cons, vault |-> vault,
              given |-> <<>>, invoked |-> <<>>])

\* anonymize_record(record, table_name) with the consistency map cons and the
\* vault: the record returned or the exception raised, and the state after.
AnonymizeRecord(cfg, fcs, cons, vault, record, table_name) ==
    IF table_name \notin DOMAIN fcs
    THEN [status |-> "ok", result |-> record, consistency |-> cons, vault |-> vault,
          given |-> <<>>, invoked |-> <<>>]
    ELSE AnonymizeItems(cfg, fcs, record, table_name, 1,
             [status |-> "ok", result |-> <<>>, consistency |-> cons, vault |-> vault,
              given |-> <<>>, invoked |-> <<>>])

\* anonymize_records, lines 630-631: count the keys of a record.
RECURSIVE CountFields(_, _, _)
CountFields(fields_processed, record, i) ==
    IF i > Len(record) THEN fields_processed
    ELSE LET f == record[i].name
         IN  CountFields(Put(fields_processed, f,
                             IF f \in DOMAIN fields_processed
                             THEN fields_processed[f] + 1 ELSE 1),
                         record, i + 1)

\* The try block without line 635: a failed record is left out of the list.
AfterCallDropsFailed(record, i, st, r) ==
    IF r.status = "ok"
    THEN [st EXCEPT !.anonymized = Append(@, r.result),
                    !.fields_processed = CountFields(@, r.result, 1),
                    !.consistency = r.consistency,
                    !.vault = r.vault,
                    !.given = @ \o r.given,
                    !.invoked = @ \o r.invoked,
                    !.calls = Append(@, [status |-> "ok", result |-> r.result])]
    ELSE [st EXCEPT !.errors = Append(@, i),
                    !.consistency = r.consistency,
                    !.vault = r.vault,
                    !.invoked = @ \o r.invoked,
                    !.calls = Append(@, [status |-> r.status, result |-> <<>>])]

\* anonymize_records, lines 626-635: the try block for the record at index i,
\* r being what the anonymize_record call gave.  calls keeps every r.
AfterCall(record, i, st, r) ==
    IF r.status = "ok"
    THEN [st EXCEPT !.anonymized = Append(@, r.result),
                    !.fields_processed = CountFields(@, r.result, 1),
                    !.consistency = r.consistency,
                    !.vault = r.vault,
                    !.given = @ \o r.given,
                    !.invoked = @ \o r.invoked,
                    !.calls = Append(@, [status |-> "ok", result |-> r.result])]
    ELSE [st EXCEPT !.errors = Append(@, i),
                    !.anonymized = Append(@, record),
                    !.consistency = r.consistency,
                    !.vault = r.vault,
                    !.invoked = @ \o r.invoked,
                    !.calls = Append(@, [status |-> r.status, result |-> <<>>])]

\* anonymize_records, lines 625-635: the body of the loop.
AnonymizeOne(cfg, fcs, record, table_name, i, st) ==
    AfterCall(record, i, st,
              AnonymizeRecord(cfg, fcs, st.consistency, st.vault, record, table_name))

\* for i, record in enumerate(records), from the n-th record on (i = n - 1).
RECURSIVE AnonymizeLoop(_, _, _, _, _, _)
AnonymizeLoop(cfg, fcs, records, table_name, n, st) ==
    IF n > Len(records) THEN st
    ELSE AnonymizeLoop(cfg, fcs, records, table_name, n + 1,
                       AnonymizeOne(cfg, fcs, records[n], table_name, n - 1, st))

\* anonymize_records, lines 637-645: the list and the AnonymizationResult.
BatchResult(records, st) ==
    [anonymized |-> st.anonymized,
     result |-> [original_count |-> Len(records),
                 anonymized_count |-> Len(st.anonymized),
                 fields_processed |-> st.fields_processed,
                 errors |-> st.errors],
     consistency |-> st.consistency, vault |-> st.vault, given |-> st.given,
     invoked |-> st.invoked, calls |-> st.calls]

\* anonymize_records(records, table_name)
AnonymizeRecords(cfg, fcs, cons, vault, records, table_name) ==
    BatchResult(records,
        AnonymizeLoop(cfg, fcs, records, table_name, 1,
            [anonymized |-> <<>>, fields_processed |-> EmptyMap, errors |-> <<>>,
             consistency |-> cons, vault |-> vault, given |-> <<>>, invoked |-> <<>>,
             calls |-> <<>>]))

\* The records given to anonymize_record: "id" always, "email" absent or one
\* of three values, "age" one of four.  "None" is the string str(None) gives.
EmailValues == {PyNone, PyStr(<<"N", "o", "n", "e">>), PyStr(<<"a", "@", "b">>)}

AgeValues == {PyNone, PyInt(25), PyStr(<<"a", "b", "c">>), PyBigInt}

Record(email, age) ==
    <<Item(<<"id">>, PyInt(1)), Item(<<"email">>, email), Item(<<"age">>, age)>>

Records ==
    {Record(e, a) : e \in EmailValues, a \in AgeValues}
    \cup {<<Item(<<"id">>, PyInt(1)), Item(<<"age">>, PyInt(25))>>}

\* The records of the batches given to anonymize_records: one that is
\* anonymized, one whose age is no number, one whose age float() overflows on.
BatchRecords ==
    {Record(PyStr(<<"a", "@", "b">>), PyInt(25)),
     Record(PyStr(<<"a", "@", "b">>), PyStr(<<"a", "b", "c">>)),
     Record(PyStr(<<"N", "o", "n", "e">>), PyBigInt)}

TableNames == {UsersTable, UnknownTable}

Batches == UNION {[1..n -> BatchRecords] : n \in 0..MaxBatch}

NoSummary == [original_count |-> 0, anonymized_count |-> 0,
              fields_processed |-> EmptyMap, errors |-> <<>>]

NoAnonOp == [op |-> "none", table |-> <<>>, input |-> <<>>, status |-> "ok",
             output |-> <<>>, result |-> NoSummary, calls |-> <<>>,
             invoked |-> <<>>]

\* The generator of the module `random`: the seed it was last given and the
\* number of values drawn from it since.  At import it is seeded by the system.
Unseeded == [seed |-> <<"urandom">>, drawn |-> 0]

\* The two threads; each has a DataAnonymizer whose one field is a name
\* under method FAKE.
Threads == {1, 2}

\* A thread outside a call, its instance holding the consistency map cache.
IdleThread(cache) == [pc |-> "idle", value |-> <<>>, first |-> <<>>, last |-> <<>>,
                      cache |-> cache]

\* DataAnonymizer(config)
AnonInitWith(cfg) ==
    /\ config = cfg
    /\ field_configs = FieldConfigs(cfg)
    /\ consistency = EmptyMap
    /\ anonVault = [present |-> cfg.use_token_vault, fwd |-> EmptyMap, rev |-> EmptyMap,
                    tok |-> 0]
    /\ returned = {}
    /\ anonOp = NoAnonOp
    /\ rng = Unseeded
    /\ threads = [t \in Threads |-> IdleThread(EmptyMap)]
    /\ faked = {}

AnonInit == \E cfg \in ConfigChoices : AnonInitWith(cfg)

\* No instance in use: the state of the anonymizer in the other specifications.
AnonIdle == AnonInitWith(AnonymizationConfig(<<>>, TRUE, FALSE))

\* The state after an anonymize_record call that gave r.
RecordCallDone(record, table_name, r) ==
    /\ consistency' = r.consistency
    /\ anonVault' = r.vault
    /\ returned' = IF r.status = "ok" THEN returned \cup Range(r.given) ELSE returned
    /\ anonOp' = [op |-> "anonymize_record", table |-> table_name,
                  input |-> <<record>>, status |-> r.status,
                  output |-> IF r.status = "ok" THEN <<r.result>> ELSE <<>>,
                  result |-> NoSummary, calls |-> <<>>, invoked |-> r.invoked]
    /\ UNCHANGED <<config, field_configs, threadVars>>
    /\ UNCHANGED <<detVars, vaultVars, toolVars>>

\* anonymizer.anonymize_record(record, table_name)
AnonymizeRecordCall ==
    \E record \in Records, table_name \in TableNames :
        RecordCallDone(record, table_name,
            AnonymizeRecord(config, field_configs, consistency, anonVault, record,
                            table_name))

\* The state after an anonymize_records call that gave r.
RecordsCallDone(records, table_name, r) ==
    /\ consistency' = r.consistency
    /\ anonVault' = r.vault
    /\ returned' = returned \cup Range(r.given)
    /\ anonOp' = [op |-> "anonymize_records", table |-> table_name,
                  input |-> records, status |-> "ok", output |-> r.anonymized,
                  result |-> r.result, calls |-> r.calls, invoked |-> r.invoked]
    /\ UNCHANGED <<config, field_configs, threadVars>>
    /\ UNCHANGED <<detVars, vaultVars, toolVars>>

\* anonymizer.anonymize_records(records, table_name)
AnonymizeRecordsCall ==
    \E records \in Batches, table_name \in TableNames :
        RecordsCallDone(records, table_name,
            AnonymizeRecords(config, field_configs, consistency, anonVault, records,
                             table_name))

-----------------------------------------------------------------------------
(* PIIDetector._luhn_check *)

\* digits_of(n): [int(d) for d in str(n)]; int(d) raises ValueError for a
\* character that is no digit.
LuhnDigitsOf(chars) ==
    IF \A i \in 1..Len(chars) : chars[i] \in Digits
    THEN [status |-> "ok", digits |-> [i \in 1..Len(chars) |-> DigitValue(chars[i])]]
    ELSE [status |-> "ValueError", digits |-> <<>>]

\* digits[-from::-2]: every second element, from the from-th last backwards.
EverySecond(digits, from) ==
    [k \in 1..((Len(digits) - from + 2) \div 2) |->
        digits[Len(digits) - from + 1 - 2 * (k - 1)]]

\* sum(digits)
RECURSIVE SumOf(_)
SumOf(digits) ==
    IF digits = <<>> THEN 0
    ELSE digits[Len(digits)] + SumOf(SubSeq(digits, 1, Len(digits) - 1))

\* _luhn_check if the doubled digits were added as they are, d * 2, instead
\* of the sum of their digits.
LuhnCheckDoubled(chars) ==
    IF chars = <<>> \/ Len(chars) < 13 THEN FALSE
    ELSE LET d == LuhnDigitsOf(chars)
         IN  IF d.status # "ok" THEN FALSE
             ELSE LET odd_digits  == EverySecond(d.digits, 1)
                      even_digits == EverySecond(d.digits, 2)
                      doubled == [k \in 1..Len(even_digits) |-> even_digits[k] * 2]
                      checksum == SumOf(odd_digits) + SumOf(doubled)
                  IN  checksum % 10 = 0

\* _luhn_check(number) for a str: False for an empty or short string, False
\* for the ValueError the except clause catches, else checksum % 10 == 0.
LuhnCheck(chars) ==
    IF chars = <<>> \/ Len(chars) < 13 THEN FALSE
    ELSE LET d == LuhnDigitsOf(chars)
         IN  IF d.status # "ok" THEN FALSE
             ELSE LET odd_digits  == EverySecond(d.digits, 1)
                      even_digits == EverySecond(d.digits, 2)
                      doubled == [k \in 1..Len(even_digits) |->
                                    SumOf(LuhnDigitsOf(IntStr(even_digits[k] * 2)).digits)]
                      checksum == SumOf(odd_digits) + SumOf(doubled)
                  IN  checksum % 10 = 0

\* The card number of the test suite, a valid number of 13 digits, and a
\* number of 12 digits whose Luhn sum is 0 modulo 10.
TestCard == <<"4", "5", "3", "2", "0", "1", "5", "1", "1", "2", "8", "3", "0", "3", "6", "6">>

ShortCard == <<"4", "2", "2", "2", "2", "2", "2", "2", "2", "2", "2", "2", "2">>

TooShort == <<"4", "5", "3", "2", "0", "1", "5", "1", "1", "2", "8", "5">>

\* The characters of the arguments: the digits, a letter and two separators.
LuhnChars == Digits \cup {"x", " ", "-"}

\* The arguments of the model: the empty string, the three numbers, and each
\* of them with one character replaced, with its last character dropped, or
\* with one character more.
LuhnInputs ==
    LET bases == {TestCard, ShortCard, TooShort}
    IN  {<<>>} \cup bases
        \cup UNION {{[b EXCEPT ![i] = c] : i \in 1..Len(b), c \in LuhnChars} : b \in bases}
        \cup {SubSeq(b, 1, Len(b) - 1) : b \in bases}
        \cup {Append(b, c) : b \in bases, c \in LuhnChars}

LuhnIdle == number = <<>> /\ luhn = "idle"

\* No generator in use.
GeneratorsIdle == generators = <<>>

ToolsIdle == LuhnIdle /\ GeneratorsIdle

\* _luhn_check(number) returns.
LuhnCheckCall ==
    /\ luhn = "pending"
    /\ luhn' = IF LuhnCheck(number) THEN "True" ELSE "False"
    /\ UNCHANGED <<number, generators>>
    /\ UNCHANGED <<detVars, vaultVars, anonVars>>

-----------------------------------------------------------------------------
(* FakeDataGenerator: pii_guard/fake_data.py *)

MaxCalls == 2

Generators == {1, 2}

Seeds == {7, 42}

Locales == {"en_US", "es_ES"}

FakeMethods == {"email", "full_name"}

\* The argument `original` of a call: absent (None), or a string.
NoOriginal == [given |-> FALSE, s |-> <<>>]

Original(s) == [given |-> TRUE, s |-> s]

Originals == {NoOriginal, Original(<<>>), Original(<<"a">>)}

\* _get_names_for_locale, and EMAIL_DOMAINS: the lists a method chooses from.
ListsOf(method, locale) ==
    IF method = "email" THEN "EMAIL_DOMAINS"
    ELSE IF locale = "es_ES" THEN "NAMES_ES" ELSE "NAMES_EN"

\* random.Random(seed) of __init__: the generator's own stream.
OwnRandom(seed, drawn) == [seed |-> seed, input |-> NoOriginal, drawn |-> drawn]

\* _get_seeded_random(input_value): a new random.Random seeded with the
\* digest of f"{seed}:{input_value}", nothing drawn from it yet.
GetSeededRandom(seed, input_value) ==
    [seed |-> seed, input |-> Original(input_value), drawn |-> <<>>]

\* What a method computes from the generator random: the values it draws
\* follow from the seed of the generator and from what was drawn before.
FakeValue(method, locale, random) ==
    [method |-> method, lists |-> ListsOf(method, locale),
     seed |-> random.seed, input |-> random.input, after |-> random.drawn]

\* email(original) and full_name(original) of the generator gen: `if
\* original:` takes a generator seeded by the original, otherwise the values
\* come from self._rng, which moves on.
FakeCall(gen, method, original) ==
    IF original.given /\ original.s # <<>>
    THEN [value |-> FakeValue(method, gen.locale, GetSeededRandom(gen.seed, original.s)),
          drawn |-> gen.drawn]
    ELSE [value |-> FakeValue(method, gen.locale, OwnRandom(gen.seed, gen.drawn)),
          drawn |-> Append(gen.drawn, method)]

\* FakeDataGenerator(seed, locale): self._rng = random.Random(seed).
FakeDataGenerator(seed, locale) ==
    [seed |-> seed, locale |-> locale, drawn |-> <<>>, calls |-> <<>>]

\* generator g answers method(original).
GeneratorCall(g, method, original) ==
    /\ Len(generators[g].calls) < MaxCalls
    /\ LET r == FakeCall(generators[g], method, original)
       IN  generators' = [generators EXCEPT
               ![g].drawn = r.drawn,
               ![g].calls = Append(@, [method |-> method, original |-> original,
                                       value |-> r.value])]
    /\ UNCHANGED <<number, luhn>>
    /\ UNCHANGED <<detVars, vaultVars, anonVars>>

GeneratorNext ==
    \E g \in Generators, method \in FakeMethods, original \in Originals :
        GeneratorCall(g, method, original)

-----------------------------------------------------------------------------
(* One configured field: every field type under every method *)

\* Bound of the field model: the largest show_last of a MASK configuration.
MaxShowLast == 2

\* The field types DataAnonymizer.__init__ registers a strategy for.
FieldTypes == {"email", "phone", "name", "ssn", "date", "numeric", "text", "address",
               "credit_card"}

FieldName == <<"value">>

\* The ranges of the scenario of the test suite, and ranges that overlap.
AgeRanges == <<<<0, 18>>, <<19, 30>>, <<31, 50>>, <<51, 100>>>>

OverlappingRanges == <<<<0, 50>>, <<19, 30>>>>

\* The params of the model's field configurations: none, or the keys the
\* strategy of the field type reads under the method.
ParamChoices(field_type, method) ==
    {NoParams}
    \cup (IF field_type \in {"phone", "credit_card"} /\ method = "mask"
          THEN {Params(DefaultRanges, n, c, "") : n \in 0..MaxShowLast, c \in {"*", "#"}}
          ELSE {})
    \cup (IF field_type = "numeric" /\ method = "generalize"
          THEN {Params(r, DefaultShowLast, "*", "") : r \in {AgeRanges, OverlappingRanges}}
          ELSE {})
    \cup (IF field_type \in {"date", "address"} /\ method = "generalize"
          THEN {Params(DefaultRanges, DefaultShowLast, "*", p) :
                   p \in {"year", "month", "decade", "zip", "city"}}
          ELSE {})

\* The configurations of the field model: one table with one field.
FieldConfigChoices ==
    UNION {{AnonymizationConfig(
               <<TableConfig(UsersTable, <<FieldConfig(FieldName, ft, m, params)>>)>>,
               preserve_nulls, use_token_vault) :
            params \in ParamChoices(ft, m), preserve_nulls \in BOOLEAN,
            use_token_vault \in {FALSE, m = "tokenize"}} :
           ft \in FieldTypes, m \in Methods}

\* The values given to the field, by its type; the string "None" is what
\* str(None) gives.
FieldValues(field_type) ==
    {PyNone, PyStr(<<"N", "o", "n", "e">>)}
    \cup CASE field_type = "email" -> {PyStr(<<"a", "@", "b">>)}
           [] field_type = "phone" -> {PyStr(<<"5", "5", "5", "-", "1", "2", "3", "4">>)}
           [] field_type = "name" -> {PyStr(<<"A", "l", " ", "B", "o">>)}
           [] field_type = "ssn" ->
                {PyStr(<<"1", "2", "3", "-", "4", "5", "-", "6", "7", "8", "9">>)}
           [] field_type = "date" ->
                {PyStr(<<"2", "0", "2", "4", "-", "0", "1", "-", "1", "5">>),
                 PyStr(<<"2", "0", "2", "4", "-", "0", "1", "-", "1", "5", "T", "10:00:00">>)}
           [] field_type = "numeric" -> {PyInt(25), PyInt(45), PyInt(101)}
           [] field_type = "text" -> {PyStr(<<"h", "i">>), PyInt(5)}
           [] field_type = "address" ->
                {PyStr(<<"1", " ", "E", "l", "m", " ", "1", "2", "3", "4", "5">>)}
           [] field_type = "credit_card" ->
                {PyStr(<<"4", "1", "1", "1", " ", "1", "1", "1", "1">>)}

\* The FieldConfig of the one field.
TheField == config.tables[1].fields[1]

InitField ==
    DetectInit /\ VaultInit /\ ToolsIdle /\ \E cfg \in FieldConfigChoices : AnonInitWith(cfg)

\* anonymizer.anonymize_record({"value": value}, "users")
FieldRecordCall ==
    \E value \in FieldValues(TheField.field_type) :
        RecordCallDone(<<Item(FieldName, value)>>, UsersTable,
            AnonymizeRecord(config, field_configs, consistency, anonVault,
                            <<Item(FieldName, value)>>, UsersTable))

-----------------------------------------------------------------------------
(* One DataAnonymizer with two tables whose names hold a dot *)

\* Table "sales" with the field "eu.email", and table "sales.eu" with the
\* field "email".
SalesTable == <<"sales">>

SalesEuTable == <<"sales", ".", "eu">>

EuEmailField == <<"eu", ".", "email">>

EmailField == <<"email">>

\* The configurations of the two tables: each field is an email under a
\* method of its own.
TablesConfigChoices ==
    {AnonymizationConfig(
        <<TableConfig(SalesTable, <<FieldConfig(EuEmailField, "email", m1, NoParams)>>),
          TableConfig(SalesEuTable, <<FieldConfig(EmailField, "email", m2, NoParams)>>)>>,
        pn, FALSE) :
     m1 \in {"mask", "hash", "redact"}, m2 \in {"mask", "hash", "redact"},
     pn \in BOOLEAN}

TablesValues == {PyNone, PyStr(<<"a", "@", "b">>), PyStr(<<"c", "@", "d">>)}

InitTables ==
    DetectInit /\ VaultInit /\ ToolsIdle /\ \E cfg \in TablesConfigChoices : AnonInitWith(cfg)

\* anonymizer.anonymize_record({field_name: value}, table_name)
TablesRecordCall ==
    \E table_name \in {SalesTable, SalesEuTable},
       field_name \in {EuEmailField, EmailField}, value \in TablesValues :
        RecordCallDone(<<Item(field_name, value)>>, table_name,
            AnonymizeRecord(config, field_configs, consistency, anonVault,
                            <<Item(field_name, value)>>, table_name))

-----------------------------------------------------------------------------
(* Two threads, each calling anonymize_record on its own instance *)

\* The names the threads anonymize.
ThreadValues == {<<"A", "l">>, <<"B", "o">>}

\* NameAnonymizer FAKE, line 310: int(md5(name)[:8], 16).
NameSeed(name) == <<"md5[:8](">> \o name \o <<")">>

\* What the generator gives next: a function of its seed and of how many
\* values were drawn since.
NextDraw(g) == <<"draw(">> \o g.seed \o <<",", IntStr(g.drawn + 1), ")">>

\* The fake name built from the two choices, line 314.
FakeName(first, last) == first \o <<" ">> \o last

\* What the FAKE call gives for name when nothing else runs: the first two
\* values of the generator seeded for the name.
FakeNameAlone(name) ==
    FakeName(NextDraw([seed |-> NameSeed(name), drawn |-> 0]),
             NextDraw([seed |-> NameSeed(name), drawn |-> 1]))

\* anonymize_record({"value": name}, "users") starts in thread t: a cached
\* name is returned at once (lines 592-594), another one goes to the strategy.
ThreadCall(t) ==
    /\ threads[t].pc = "idle"
    /\ \E name \in ThreadValues :
         IF name \in DOMAIN threads[t].cache
         THEN /\ faked' = faked \cup {[thread |-> t, value |-> name,
                                       out |-> threads[t].cache[name]]}
              /\ UNCHANGED threads
         ELSE /\ threads' = [threads EXCEPT ![t].pc = "seed", ![t].value = name]
              /\ UNCHANGED faked
    /\ UNCHANGED rng
    /\ UNCHANGED <<detVars, vaultVars, instVars, toolVars>>

\* line 311: random.seed(seed)
ThreadSeed(t) ==
    /\ threads[t].pc = "seed"
    /\ rng' = [seed |-> NameSeed(threads[t].value), drawn |-> 0]
    /\ threads' = [threads EXCEPT ![t].pc = "first"]
    /\ UNCHANGED faked
    /\ UNCHANGED <<detVars, vaultVars, instVars, toolVars>>

\* line 312: first = random.choice(self.FAKE_FIRST_NAMES)
ThreadFirst(t) ==
    /\ threads[t].pc = "first"
    /\ rng' = [rng EXCEPT !.drawn = @ + 1]
    /\ threads' = [threads EXCEPT ![t].pc = "last", ![t].first = NextDraw(rng)]
    /\ UNCHANGED faked
    /\ UNCHANGED <<detVars, vaultVars, instVars, toolVars>>

\* line 313: last = random.choice(self.FAKE_LAST_NAMES)
ThreadLast(t) ==
    /\ threads[t].pc = "last"
    /\ rng' = [rng EXCEPT !.drawn = @ + 1]
    /\ threads' = [threads EXCEPT ![t].pc = "return", ![t].last = NextDraw(rng)]
    /\ UNCHANGED faked
    /\ UNCHANGED <<detVars, vaultVars, instVars, toolVars>>

\* line 314 and anonymize_record, lines 600-606: the fake name is cached and
\* returned.
ThreadReturn(t) ==
    /\ threads[t].pc = "return"
    /\ LET out == FakeName(threads[t].first, threads[t].last)
       IN  /\ faked' = faked \cup {[thread |-> t, value |-> threads[t].value, out |-> out]}
           /\ threads' = [threads EXCEPT
                            ![t] = IdleThread(Put(threads[t].cache, threads[t].value, out))]
    /\ UNCHANGED rng
    /\ UNCHANGED <<detVars, vaultVars, instVars, toolVars>>

ThreadNext ==
    \E t \in Threads :
        ThreadCall(t) \/ ThreadSeed(t) \/ ThreadFirst(t) \/ ThreadLast(t) \/ ThreadReturn(t)

-----------------------------------------------------------------------------
(* Specifications *)

InitDetect ==
    (\E kind \in InputKinds : DetectInitWith(kind)) /\ VaultInit /\ AnonIdle /\ ToolsIdle

InitVault == DetectInit /\ VaultInit /\ AnonIdle /\ ToolsIdle

InitAnon == DetectInit /\ VaultInit /\ AnonInit /\ ToolsIdle

InitThreads == DetectInit /\ VaultInit /\ AnonIdle /\ ToolsIdle

InitScan == DetectInit /\ VaultInit /\ AnonIdle /\ ToolsIdle

\* One detect() or redact() call.
SpecDetect == InitDetect /\ [][DetectNext]_vars

\* One detect() call whose pattern scan runs the whole registry.
SpecScan == InitScan /\ [][ScanNext]_vars

\* Two TokenVault objects and their callers.
SpecVault == InitVault /\ [][VaultNext]_vars

\* One DataAnonymizer, given records one at a time.
SpecAnon == InitAnon /\ [][AnonymizeRecordCall]_vars

\* One DataAnonymizer, given batches.
SpecBatch == InitAnon /\ [][AnonymizeRecordsCall]_vars

\* One DataAnonymizer with one configured field, given one-field records.
SpecField == InitField /\ [][FieldRecordCall]_vars

\* One _luhn_check call.
InitLuhn ==
    /\ DetectInit /\ VaultInit /\ AnonIdle /\ GeneratorsIdle
    /\ number \in LuhnInputs
    /\ luhn = "pending"

SpecLuhn == InitLuhn /\ [][LuhnCheckCall]_vars

\* Two FakeDataGenerator objects built with the same seed and locale.
InitGenerators ==
    /\ DetectInit /\ VaultInit /\ AnonIdle /\ LuhnIdle
    /\ \E seed \in Seeds, locale \in Locales :
          generators = [g \in Generators |-> FakeDataGenerator(seed, locale)]

SpecGenerators == InitGenerators /\ [][GeneratorNext]_vars

\* One DataAnonymizer with two tables, given one-field records.
SpecTables == InitTables /\ [][TablesRecordCall]_vars

\* Two threads with one DataAnonymizer each, their steps interleaved.
SpecThreads == InitThreads /\ [][ThreadNext]_vars

-----------------------------------------------------------------------------
(* Properties *)

\* C1: no two distinct entities returned by detect have overlapping spans:
\* for any returned a and b, a.end <= b.start or b.end <= a.start.
C1_NoOverlappingSpans ==
    stage = "done" =>
        \A i, j \in 1..Len(detected) :
            i # j => \/ detected[i].end <= detected[j].start
                     \/ detected[j].end <= detected[i].start

\* A detect call that returns a long match over two shorter ones of another
\* type: the first of the two joined the group of the long one, the second did
\* not, and is returned beside it.
C1_OverlapReturned ==
    /\ stage = "done"
    /\ Len(entities) = 3
    /\ Len(detected) = 2
    /\ \E i, j \in 1..2 :
         /\ detected[i].label = "VIN" /\ detected[j].label = "PHONE"
         /\ detected[i].start <= detected[j].start
         /\ detected[j].end <= detected[i].end

\* C2: for one DataAnonymizer and one configured (table, field), any two
\* anonymize_record calls in which the field holds the same original value
\* return the same anonymized value for it, whatever was processed before or
\* in between, null values with preserve_nulls off included.
C2_SameValueSameResult ==
    \A x, y \in returned :
        (x.table = y.table /\ x.field = y.field /\ x.value = y.value) => x.out = y.out

\* C3: after any sequence of tokenize, detokenize, export_vault and
\* import_vault calls on a vault, detokenize(k, t) returns v for every value v
\* that was ever tokenized under field type t in that vault with token k.
\* Stated for the values whose digest no other value shares.
C3_DetokenizeReturnsValue ==
    (/\ tracked.set
     /\ \A w \in VaultValues \ {tracked.value} : ValueHash(w) # ValueHash(tracked.value)) =>
        Detokenize(revHeap[vaults[tracked.vault].reverse], tracked.token, tracked.ft)
            = Found(tracked.value)

\* A value whose digest no other value shares was tokenized in a vault, the
\* vault has imported since, and it no longer resolves the token.
C3_LostByImport ==
    /\ tracked.set
    /\ ~tracked.live
    /\ tracked.value = <<"b">>
    /\ Detokenize(revHeap[vaults[tracked.vault].reverse], tracked.token, tracked.ft)
           = NotFound

C5_ExportImportAreCopies ==
    [][ vaultOp'.op = "tokenize" =>
           /\ \A x \in 1..Len(exported) : Contents(exported[x])' = Contents(exported[x])
           /\ \A w \in Vaults \ {vaultOp'.vault} : VaultMaps(w)' = VaultMaps(w)
    ]_vars

\* C6: anonymize_records never aborts on a failed record: the list returned
\* has one entry per input record, in input order; entry i is the input
\* record when record i failed and the anonymize_record output otherwise; the
\* error list names exactly the failed positions, once each, ascending.
C6_BatchNeverAborts ==
    anonOp.op = "anonymize_records" =>
        LET n      == Len(anonOp.input)
            errors == anonOp.result.errors
            failed == {i \in 0..(n - 1) : anonOp.calls[i + 1].status # "ok"}
        IN  /\ Len(anonOp.calls) = n
            /\ Len(anonOp.output) = n
            /\ \A i \in 0..(n - 1) :
                 anonOp.output[i + 1] = IF i \in failed THEN anonOp.input[i + 1]
                                        ELSE anonOp.calls[i + 1].result
            /\ Range(errors) = failed
            /\ \A a, b \in 1..Len(errors) : a < b => errors[a] < errors[b]

\* A batch whose first record failed and whose second was anonymized.
C6_FailedThenAnonymized ==
    /\ anonOp.op = "anonymize_records"
    /\ anonOp.table = UsersTable
    /\ Len(anonOp.input) = 2
    /\ anonOp.result.errors = <<0>>
    /\ anonOp.calls[2].status = "ok"
    /\ anonOp.output[2] # anonOp.input[2]

\* C7: anonymized_count is the number of records anonymized successfully:
\* original_count minus the number of entries of the error list.
C7_AnonymizedCount ==
    anonOp.op = "anonymize_records" =>
        anonOp.result.anonymized_count
            = anonOp.result.original_count - Len(anonOp.result.errors)

\* C8 as claimed: a record of a batch whose numeric field holds a value that
\* float() does not convert adds an entry to the error list and is returned
\* unmodified.
C8_UnconvertibleIsFailure ==
    (anonOp.op = "anonymize_records" /\ anonOp.table = UsersTable) =>
        \A i \in 1..Len(anonOp.input) :
            ToFloat(anonOp.input[i][3].value).status # "ok" =>
                /\ (i - 1) \in Range(anonOp.result.errors)
                /\ anonOp.output[i] = anonOp.input[i]

\* C8: a record of a batch whose numeric field holds a value on which float()
\* raises ValueError or TypeError is no failure: it adds no entry to the error
\* list and is returned with that field null and its other fields processed;
\* a value on which float() raises another exception (OverflowError) makes the
\* record a failure: an entry in the error list, the record unmodified.
C8_UnconvertibleBecomesNull ==
    (anonOp.op = "anonymize_records" /\ anonOp.table = UsersTable) =>
        \A i \in 1..Len(anonOp.input) :
            LET status == ToFloat(anonOp.input[i][3].value).status
            IN  /\ status \in {"ValueError", "TypeError"} =>
                     /\ (i - 1) \notin Range(anonOp.result.errors)
                     /\ Len(anonOp.output[i]) = 3
                     /\ anonOp.output[i][3] = Item(<<"age">>, PyNone)
                     /\ anonOp.output[i][2] # anonOp.input[i][2]
                /\ status \notin {"ok", "ValueError", "TypeError"} =>
                     /\ (i - 1) \in Range(anonOp.result.errors)
                     /\ anonOp.output[i] = anonOp.input[i]

\* A batch of a record whose age is "abc" and a record whose age is 10**400:
\* the first has its age null, the second is the one error.
C8_NullThenFailure ==
    /\ anonOp.op = "anonymize_records"
    /\ anonOp.table = UsersTable
    /\ Len(anonOp.input) = 2
    /\ anonOp.input[1][3].value = PyStr(<<"a", "b", "c">>)
    /\ anonOp.output[1][3].value = PyNone
    /\ anonOp.input[2][3].value = PyBigInt
    /\ anonOp.result.errors = <<1>>

\* C9: anonymize_record with a table name that has no configuration returns a
\* record equal to the input and leaves the consistency cache and the token
\* vault unchanged.
C9_UnknownTableIsNoOp ==
    [][ (anonOp'.op = "anonymize_record" /\ anonOp'.table \notin DOMAIN field_configs) =>
           /\ anonOp'.status = "ok"
           /\ anonOp'.output = anonOp'.input
           /\ consistency' = consistency
           /\ anonVault' = anonVault
    ]_vars

\* A call for an unknown table on an instance whose cache and vault hold
\* entries of earlier calls.
C9_UnknownTableAfterWork ==
    /\ anonOp.op = "anonymize_record"
    /\ anonOp.table = UnknownTable
    /\ anonOp.input = <<Record(PyStr(<<"a", "@", "b">>), PyInt(25))>>
    /\ consistency # EmptyMap
    /\ anonVault.tok > 0

\* C10: for a configured table, anonymize_record returns a record with the
\* field names of the input; a field that is not in the table's configuration
\* keeps its value; a configured field whose value is null keeps null when
\* preserve_nulls is set, and the call adds no consistency-cache entry for it.
C10_ConfiguredTableFrame ==
    [][ (/\ anonOp'.op = "anonymize_record"
        /\ anonOp'.table \in DOMAIN field_configs
        /\ anonOp'.status = "ok") =>
           LET record == anonOp'.input[1]
               result == anonOp'.output[1]
               fcs    == field_configs[anonOp'.table]
           IN  /\ Len(result) = Len(record)
               /\ \A i \in 1..Len(record) :
                    /\ result[i].name = record[i].name
                    /\ record[i].name \notin DOMAIN fcs => result[i].value = record[i].value
                    /\ (/\ record[i].name \in DOMAIN fcs
                        /\ record[i].value = PyNone
                        /\ config.preserve_nulls) =>
                           LET key == ConsistencyKey(anonOp'.table, record[i].name)
                           IN  /\ result[i].value = PyNone
                               /\ (key \in DOMAIN consistency') = (key \in DOMAIN consistency)
                               /\ key \in DOMAIN consistency =>
                                    consistency'[key] = consistency[key]
    ]_vars

\* A record with a null email and an age of 25, given to an instance that
\* preserves nulls: the age is generalized, no entry is cached for the email.
C10_NullPreserved ==
    /\ anonOp.op = "anonymize_record"
    /\ anonOp.table = UsersTable
    /\ anonOp.status = "ok"
    /\ config.preserve_nulls
    /\ anonOp.input = <<Record(PyNone, PyInt(25))>>
    /\ anonOp.output[1][3].value = PyStr(<<"2", "1", "-", "5", "0">>)
    /\ ConsistencyKey(UsersTable, <<"email">>) \notin DOMAIN consistency

\* Python's a == b on the values of the model: an int and a float are equal
\* when their numbers are, any other two values when they are the same.
PyEquals(a, b) ==
    IF a.k \in {"int", "float"} /\ b.k \in {"int", "float"} THEN a.n = b.n ELSE a = b

\* C11: for every field type, a field configured with method PRESERVE comes
\* back from anonymize_record with a value equal to the original value.
C11_PreserveKeepsValue ==
    \A x \in returned :
        field_configs[x.table][x.field].method = "preserve" => PyEquals(x.out, x.value)

\* C12: for every field type, a field configured with method NULL comes back
\* from anonymize_record as null, whatever non-null value it had.
C12_NullGivesNull ==
    \A x \in returned :
        (field_configs[x.table][x.field].method = "null" /\ x.value # PyNone) =>
            x.out = PyNone

\* The string C13 describes: the text in which the span of each entity, taken
\* in the order returned, is replaced by one placeholder and the characters
\* outside the spans are kept, from entity i and offset pos on.
RECURSIVE SpansReplaced(_, _, _, _, _)
SpansReplaced(text, ents, mask_char, i, pos) ==
    IF i > Len(ents) THEN Slice(text, pos, Len(text))
    ELSE Slice(text, pos, ents[i].start) \o Mask(ents[i].label, mask_char)
           \o SpansReplaced(text, ents, mask_char, i + 1,
                            IF ents[i].end > pos THEN ents[i].end ELSE pos)

\* C13: redact(text, mask_char) returns the entities of detect(text) and the
\* text in which the span of every returned entity is replaced by the
\* placeholder [LABEL:mmmm], m the mask character, every character outside
\* the spans kept in order, one intact placeholder for each entity.
C13_RedactReplacesSpans ==
    [][\A mask_char \in MaskChars :
         RedactReturnWith(mask_char) =>
            /\ detected' = Resolve(entities)
            /\ redacted' = SpansReplaced(Text, detected', mask_char, 1, 0)
    ]_vars

\* C14: what detect returns is sorted by start, ascending, and each entity e
\* has text[e.start:e.end] as its text and a confidence from 0.0 to 0.99, the
\* entities boosted by the ensemble resolution included.
C14_WellFormedResult ==
    stage = "done" =>
        /\ \A i, j \in 1..Len(detected) : i < j => detected[i].start <= detected[j].start
        /\ \A i \in 1..Len(detected) :
             /\ detected[i].text.start = detected[i].start
             /\ detected[i].text.end = detected[i].end
             /\ 0 <= detected[i].confidence
             /\ detected[i].confidence <= 99000

\* detect returned the survivor of a group of three overlapping entities, its
\* confidence raised to 0.99, which none of the three had.
C14_BoostedToCap ==
    /\ stage = "done"
    /\ Len(entities) = 3
    /\ Len(detected) = 1
    /\ detected[1].confidence = 99000
    /\ \A i \in 1..3 : entities[i].confidence < 99000
    /\ \E i \in 1..3 : entities[i].confidence > 97000

\* C15: detect never raises, whatever its argument is, text or not, and it
\* returns the empty list when no rule gave an entity.
C15_DetectNeverRaises ==
    /\ stage # "raised"
    /\ (stage = "done" /\ entities = <<>>) => detected = <<>>

\* What a second instance built from the same configuration, which has
\* processed nothing yet, returns for the field holding value.
FreshInstanceGives(value) ==
    LET r == AnonymizeRecord(config, field_configs, EmptyMap,
                             [present |-> config.use_token_vault, fwd |-> EmptyMap,
                              rev |-> EmptyMap, tok |-> 0],
                             <<Item(FieldName, value)>>, UsersTable)
    IN  IF r.status = "ok" THEN r.result[1].value ELSE PyNone

\* C16: FAKE is deterministic per input value: for every field type, what an
\* instance returns for a value is what any other instance built from the same
\* configuration returns for it, whatever records either processed before,
\* in whatever order.
C16_FakeSameAcrossInstances ==
    \A x \in returned :
        (/\ field_configs[x.table][x.field].method = "fake"
         /\ field_configs[x.table][x.field].field_type
               \in {"email", "phone", "name", "ssn", "date", "numeric", "address"}) =>
            x.out = FreshInstanceGives(x.value)

\* C17: two DataAnonymizer instances, each used by one thread, the steps of
\* the threads interleaved in any way: every result of the FAKE method is
\* the result the same call gives when it runs alone.
C17_ThreadsDoNotInterfere ==
    \A x \in faked : x.out = FakeNameAlone(x.value)

\* C18: MASK of a phone or credit card number with d digits and show_last N
\* gives d characters: mask_char everywhere but in the last N places, which
\* hold the digits the number has there; with N = 0 no digit is left.
C18_MaskKeepsLastDigits ==
    \A x \in returned :
        LET fc     == field_configs[x.table][x.field]
            digits == DigitsOf(Stringify(x.value))
            d      == Len(digits)
            N      == fc.params.show_last
        IN  (/\ fc.field_type \in {"phone", "credit_card"}
             /\ fc.method = "mask"
             /\ x.value # PyNone
             /\ x.out # PyNone) =>
                /\ Len(x.out.s) = d
                /\ \A i \in 1..Len(x.out.s) :
                     IF i <= d - N THEN x.out.s[i] = fc.params.mask_char
                     ELSE i <= d /\ x.out.s[i] = digits[i]

\* C19: GENERALIZE of a numeric field gives the label lo-hi of the first
\* configured range, in list order, with lo <= value <= hi, and other when no
\* configured range holds the value.
C19_FirstRangeOrOther ==
    \A x \in returned :
        LET fc     == field_configs[x.table][x.field]
            ranges == fc.params.ranges
            Holds(i) == ranges[i][1] <= x.value.n /\ x.value.n <= ranges[i][2]
        IN  (/\ fc.field_type = "numeric"
             /\ fc.method = "generalize"
             /\ x.value.k \in {"int", "float"}) =>
                \/ /\ x.out = PyStr(<<"o", "t", "h", "e", "r">>)
                   /\ \A i \in 1..Len(ranges) : ~Holds(i)
                \/ \E i \in 1..Len(ranges) :
                     /\ Holds(i)
                     /\ \A j \in 1..(i - 1) : ~Holds(j)
                     /\ x.out = PyStr(IntStr(ranges[i][1]) \o <<"-">> \o IntStr(ranges[i][2]))

\* Under the ranges of the example 25 gave 19-30, 45 gave 31-50 and 101 gave
\* other.
C19_ExampleRanges ==
    /\ TheField.field_type = "numeric"
    /\ TheField.method = "generalize"
    /\ TheField.params.ranges = AgeRanges
    /\ \E x \in returned : x.value = PyInt(25) /\ x.out = PyStr(<<"1", "9", "-", "3", "0">>)
    /\ \E x \in returned : x.value = PyInt(45) /\ x.out = PyStr(<<"3", "1", "-", "5", "0">>)
    /\ \E x \in returned : x.value = PyInt(101) /\ x.out = PyStr(<<"o", "t", "h", "e", "r">>)

\* C20: detokenize(token, field_type) returns not found and leaves the maps
\* of every vault as they are whenever the token was never minted under the
\* field type in the vault: no vault minted the token, the vault has no map
\* for the field type, the token was minted under another field type, or it was
\* minted by another vault and no vault has imported data since.
C20_UnknownTokenNotFound ==
    [][vaultOp'.op = "detokenize" =>
         LET w     == vaultOp'.vault
             token == vaultOp'.token
             ft    == vaultOp'.ft
         IN  /\ \A u \in Vaults : VaultMaps(u)' = VaultMaps(u)
             /\ (\/ \A f \in VaultFieldTypes, n \in 1..nextTok : token # NewToken(f, n)
                 \/ ft \notin DOMAIN revHeap[vaults[w].reverse]
                 \/ tracked.set /\ token = tracked.token /\ ft # tracked.ft
                 \/ tracked.set /\ tracked.unseen /\ token = tracked.token
                      /\ w # tracked.vault) =>
                    vaultOp'.result = NotFound
    ]_vars

\* The entities of ents that a chain of pairwise overlapping entities links
\* to one of the entities in seen.
RECURSIVE LinkedTo(_, _)
LinkedTo(seen, ents) ==
    LET more == {j \in 1..Len(ents) :
                   \E i \in seen : Overlap(ents[i].start, ents[i].end,
                                           ents[j].start, ents[j].end)}
    IN  IF more \subseteq seen THEN seen ELSE LinkedTo(seen \cup more, ents)

\* The entities i and j of ents stand in one group of merged.
SameGroup(merged, ents, i, j) ==
    \E g \in 1..Len(merged) :
        /\ \E k \in 1..Len(merged[g]) : merged[g][k] = ents[i]
        /\ \E k \in 1..Len(merged[g]) : merged[g][k] = ents[j]

\* C23: the groups of ensemble resolution are the connected components of
\* the overlap relation: two accepted entities stand in one group if and only
\* if a chain of pairwise overlapping entities links them.
C23_GroupsAreComponents ==
    stage = "done" =>
        LET merged == MergeGroups(entities, 1, <<>>)
        IN  \A i, j \in 1..Len(entities) :
                SameGroup(merged, entities, i, j) <=> j \in LinkedTo({i}, entities)

\* C24: every group leaves exactly one entity: a group of one its entity, a
\* larger group an entity of maximal confidence with its span, label and
\* text, the confidence raised by 0.02 (at most to 0.99) exactly when the
\* group has more than two members.
C24_OneSurvivorPerGroup ==
    LET merged == MergeGroups(entities, 1, <<>>)
        out == EnsembleVoting(entities)
    IN  /\ Len(out) = Len(merged)
        /\ \A g \in 1..Len(merged) :
             \E k \in 1..Len(merged[g]) :
                LET best == merged[g][k]
                IN  /\ \A m \in 1..Len(merged[g]) :
                          merged[g][m].confidence <= best.confidence
                    /\ out[g].start = best.start /\ out[g].end = best.end
                    /\ out[g].label = best.label /\ out[g].text = best.text
                    /\ out[g].confidence =
                          IF Len(merged[g]) > 2
                          THEN Min(99000, best.confidence + 2000)
                          ELSE best.confidence

\* Three entities were accepted, two of them overlapping and of different
\* confidence, and the third on its own: a pair and a single group.
C24_PairAndSingle ==
    /\ stage = "done"
    /\ Len(entities) = 3
    /\ LET merged == MergeGroups(entities, 1, <<>>)
       IN  /\ Len(merged) = 2
           /\ \E g \in 1..2 :
                /\ Len(merged[g]) = 2
                /\ merged[g][1].confidence < merged[g][2].confidence

\* The entities the filter is said to remove: those below the floor of their
\* label, and the PHONE and IP_ADDRESS entities whose text is a deny-listed
\* placeholder value.
SaidRemoved(e) ==
    \/ e.label = "BANK_ACCOUNT" /\ e.confidence < 88000
    \/ e.label = "DRIVER_LICENSE" /\ e.confidence < 85000
    \/ e.label \in {"EMPLOYEE_ID", "TAX_ID"} /\ e.confidence < 87000
    \/ e.label \in {"PHONE", "IP_ADDRESS"} /\ e.text.kind = "placeholder"

SaidKept(e) == ~SaidRemoved(e)

\* C26: the precision filter removes exactly the entities below the floor of
\* their label and the PHONE and IP_ADDRESS entities whose text is a
\* deny-listed value; every other entity is kept, in order, one whose text
\* only contains a deny-listed value included.
C26_FilterRemovesExactly ==
    stage = "done" =>
        LET voted == EnsembleVoting(entities)
        IN  FilterEntities(voted) = SelectSeq(voted, SaidKept)

\* The returned entity d is the accepted entity e, as it was accepted or with
\* the boost of 0.02 clamped to 0.99.
ReturnedFrom(d, e) ==
    /\ d.start = e.start /\ d.end = e.end
    /\ d.label = e.label /\ d.text = e.text
    /\ d.confidence \in {e.confidence, Min(99000, e.confidence + 2000)}

\* C30: every returned entity is an accepted entity with its confidence or
\* the boosted one, and of every overlap group (the entities a chain of
\* overlaps links) at most one entity is returned, which is one of maximal
\* confidence in its group: no other member takes the place of a survivor
\* the filter removed.
C30_OnePerOverlapGroup ==
    stage = "done" =>
        /\ \A k \in 1..Len(detected) :
             \E i \in 1..Len(entities) : ReturnedFrom(detected[k], entities[i])
        /\ \A i \in 1..Len(entities) :
             LET group == LinkedTo({i}, entities)
                 back == {k \in 1..Len(detected) :
                            \E j \in group : ReturnedFrom(detected[k], entities[j])}
             IN  /\ Cardinality(back) <= 1
                 /\ \A k \in back : \A j \in group :
                        entities[j].confidence <= detected[k].confidence

\* The confidence a pattern match is said to have: base * weight + 0.1 *
\* context score, then the validator's bonus or penalty, and the clamp to
\* 0.99 last.
SaidConfidence(t, nkw, valid) ==
    LET raw == ConfidenceBase(t) * EntityWeight(t) * 10
                 + CalculateContextScore(nkw) * 100
        adj == IF valid THEN raw + ValidatorBonus(t)
               ELSE IF t = "VIN" THEN (raw * 7) \div 10
               ELSE IF t = "IBAN" THEN (raw * 6) \div 10
               ELSE IF t = "BITCOIN_ADDRESS" THEN (raw * 8) \div 10
               ELSE raw
    IN  Min(99000, adj)

\* C25: a pattern match is accepted exactly when min(0.99, adj(base * weight
\* + 0.1 * context score)) exceeds 0.75, and that value, clamped after the
\* bonus or the penalty, is the confidence stored in its entity.
C25_ClampAppliedLast ==
    [][\A i \in 1..Len(Patterns), sp \in Spans, nkw \in 0..MaxScanKeywords,
          valid \in BOOLEAN :
          RegistryMatchWith(i, sp, nkw, valid) =>
             LET said == SaidConfidence(Patterns[i], nkw, valid)
             IN  /\ (entities' # entities) <=> (said > 75000)
                 /\ entities' # entities =>
                       entities'[Len(entities')].confidence = said]_vars

\* The consistency map cons holds an anonymized value for the value of the
\* field of the table.
Cached(cons, table_name, field_name, value) ==
    /\ ConsistencyKey(table_name, field_name) \in DOMAIN cons
    /\ Stringify(value) \in DOMAIN cons[ConsistencyKey(table_name, field_name)]

\* Two calls of a strategy for the same field and the same non-null
\* stringified value.
SameOccurrence(c1, c2) ==
    /\ c1.table = c2.table /\ c1.field = c2.field
    /\ c1.value.k # "none" /\ c2.value.k # "none"
    /\ Stringify(c1.value) = Stringify(c2.value)

C28_OutputOfOwnConfig ==
    [][(/\ anonOp'.op = "anonymize_record"
        /\ anonOp'.status = "ok"
        /\ anonOp'.table \in DOMAIN field_configs) =>
          \A i \in 1..Len(anonOp'.input[1]) :
             LET item == anonOp'.input[1][i]
                 fcs  == field_configs[anonOp'.table]
             IN  item.name \in DOMAIN fcs =>
                    anonOp'.output[1][i].value =
                       Anonymize(item.value, fcs[item.name], anonVault).value]_vars

\* The methods the strategy of a field type has a branch for.
Branches(field_type) ==
    CASE field_type = "email" -> {"redact", "mask", "hash", "fake", "tokenize"}
      [] field_type \in {"phone", "name", "ssn"} -> {"redact", "mask", "hash", "fake"}
      [] field_type \in {"date", "numeric", "address"} -> {"redact", "fake", "generalize"}
      [] field_type = "text" -> {"redact", "mask", "hash", "preserve"}
      [] field_type = "credit_card" -> {"redact", "mask", "hash"}

\* C29: under a method other than PRESERVE that the strategy of the field
\* type has no branch for, the strategy, called for a value that is not
\* null, gives the REDACT placeholder of the type and never the original.
C29_UnimplementedGivesPlaceholder ==
    (/\ anonOp.op = "anonymize_record"
     /\ anonOp.status = "ok"
     /\ Len(anonOp.invoked) = 1
     /\ anonOp.input[1][1].value.k # "none"
     /\ TheField.method \notin Branches(TheField.field_type) \cup {"preserve"}) =>
        LET value == anonOp.input[1][1].value
            out   == anonOp.output[1][1].value
        IN  /\ out = Anonymize(value, [TheField EXCEPT !.method = "redact"],
                               anonVault).value
            /\ ~PyEquals(out, value)

\* The Luhn sum of the digits from the p-th position from the right on: a
\* digit at an odd position counts as it is, a digit at an even position as
\* the sum of the digits of its double.
RECURSIVE LuhnSum(_, _)
LuhnSum(chars, p) ==
    IF p > Len(chars) THEN 0
    ELSE LET d == DigitValue(chars[Len(chars) - p + 1])
         IN  (IF p % 2 = 1 THEN d ELSE ((2 * d) \div 10) + ((2 * d) % 10))
             + LuhnSum(chars, p + 1)

\* C22: the Luhn validator accepts a string exactly when it consists of at
\* least 13 decimal digits whose Luhn sum is 0 modulo 10, and returns false,
\* without raising, for every other string.
C22_LuhnAcceptsExactly ==
    luhn # "pending" =>
        /\ luhn \in {"True", "False"}
        /\ luhn = "True" <=>
              /\ Len(number) >= 13
              /\ \A i \in 1..Len(number) : number[i] \in Digits
              /\ LuhnSum(number, 1) % 10 = 0

\* The card number of the test suite was accepted.
C22_TestCardAccepted == number = TestCard /\ luhn = "True"

\* The calls of a generator that were made without an original.
WithoutOriginal(calls) == SelectSeq(calls, LAMBDA c : ~c.original.given)

\* The first n calls of two lists are calls of the same methods with the
\* same arguments.
SameCalls(c1, c2, n) ==
    \A i \in 1..n : c1[i].method = c2[i].method /\ c1[i].original = c2[i].original

\* C21: two generators built with the same seed and locale answer the same
\* sequence of calls with equal values; a call given an original string
\* returns a value that only the method, the seed, the locale and the
\* original decide, whatever was called before, and it does not change what
\* the calls without an original return.
C21_OriginalDecidesValue ==
    \A g \in DOMAIN generators, h \in DOMAIN generators :
        LET cg == generators[g].calls
            ch == generators[h].calls
            ng == WithoutOriginal(cg)
            nh == WithoutOriginal(ch)
        IN  /\ \A n \in 1..Min(Len(cg), Len(ch)) :
                   SameCalls(cg, ch, n) => cg[n].value = ch[n].value
            /\ \A i \in 1..Len(cg), j \in 1..Len(ch) :
                   (/\ cg[i].original.given
                    /\ cg[i].method = ch[j].method
                    /\ cg[i].original = ch[j].original) => cg[i].value = ch[j].value
            /\ \A n \in 1..Min(Len(ng), Len(nh)) :
                   SameCalls(ng, nh, n) => ng[n].value = nh[n].value


====
